---- MODULE Spec2Model ----
(***************************************************************************)
(* A model of the stroopwafel library: macaroon-style bearer tokens with   *)
(* a chained keyed-MAC signature, first- and third-party caveats,          *)
(* discharge tokens, binding and verification.                             *)
(*                                                                         *)
(* Byte strings (keys, identifiers, caveat payloads, locations and         *)
(* signatures) are sequences of integers; text is written as its ASCII     *)
(* codes.  Option<T> is a sequence of length 0 (None) or 1 (Some).         *)
(***************************************************************************)
EXTENDS Integers, Sequences, FiniteSets, TLC

(***************************************************************************)
(* Bounds of the model.                                                    *)
(***************************************************************************)
MaxCaveats == 2
MaxDischarges == 2
MaxDischargeCaveats == 1

(***************************************************************************)
(* Option<T>                                                               *)
(***************************************************************************)
None == <<>>
Some(x) == <<x>>
is_none(o) == Len(o) = 0
is_some(o) == Len(o) = 1

(***************************************************************************)
(* crypto.rs.  HMAC-SHA3-256 is a black box; it is modelled as the free    *)
(* (collision-free) pairing of key and message: the tag lists the key,     *)
(* prefixed by a marker that holds the key's length, and then the message. *)
(* The marker is negative, so it is no byte, and distinct (key, message)   *)
(* pairs have distinct tags.                                               *)
(***************************************************************************)
\* Mutant: the key does not enter the tag.
hmac_sha3_keyless(key, message) == <<0 - 1>> \o message

hmac_sha3(key, message) == <<0 - (Len(key) + 1)>> \o key \o message

bind_caveat(signature, caveat_id) == hmac_sha3(signature, caveat_id)

(***************************************************************************)
(* caveat.rs                                                               *)
(***************************************************************************)
first_party(caveat_id) ==
    [caveat_id |-> caveat_id, verification_key_id |-> None, location |-> None]

\* Mutant: the location is not stored.
third_party_without_location(caveat_id, verification_key_id, location) ==
    [caveat_id |-> caveat_id,
     verification_key_id |-> Some(verification_key_id),
     location |-> None]

third_party(caveat_id, verification_key_id, location) ==
    [caveat_id |-> caveat_id,
     verification_key_id |-> Some(verification_key_id),
     location |-> Some(location)]

\* Mutant: the location is not looked at.
is_first_party_key_only(c) == is_none(c.verification_key_id)

is_first_party(c) == is_none(c.verification_key_id) /\ is_none(c.location)

is_third_party(c) == ~is_first_party(c)

(***************************************************************************)
(* error.rs: the results of fallible operations.  The detail names the     *)
(* message the code formats, without the text it interpolates.             *)
(***************************************************************************)
Ok == [kind |-> "Ok", detail |-> ""]
Err(kind, detail) == [kind |-> kind, detail |-> detail]
is_ok(r) == r.kind = "Ok"

ErrorKinds == {"InvalidSignature", "CaveatViolation", "DeserializationError",
               "InvalidFormat", "CryptoError", "InvalidKeyLength"}

(***************************************************************************)
(* stroopwafel.rs: construction, attenuation, binding                      *)
(***************************************************************************)
\* Mutant: the location is signed along with the identifier.
new_signs_location(root_key, identifier, location) ==
    [location |-> location,
     identifier |-> identifier,
     caveats |-> <<>>,
     signature |-> hmac_sha3(root_key,
                             identifier \o (IF is_some(location) THEN location[1] ELSE <<>>))]

new(root_key, identifier, location) ==
    [location |-> location,
     identifier |-> identifier,
     caveats |-> <<>>,
     signature |-> hmac_sha3(root_key, identifier)]

\* Mutant: the number of caveats is bound instead of the payload.
add_first_party_caveat_binds_count(self, predicate) ==
    [self EXCEPT !.signature = bind_caveat(self.signature, <<Len(self.caveats)>>),
                 !.caveats = Append(self.caveats, first_party(predicate))]

\* Mutant: the caveat is pushed without being bound to the signature chain.
add_first_party_caveat_unbound(self, predicate) ==
    [self EXCEPT !.caveats = Append(self.caveats, first_party(predicate))]

add_first_party_caveat(self, predicate) ==
    [self EXCEPT !.signature = bind_caveat(self.signature, predicate),
                 !.caveats = Append(self.caveats, first_party(predicate))]

\* Mutant: the caveat_id is bound instead of the verification key id.
add_third_party_caveat_binds_id(self, caveat_id, verification_key_id, location) ==
    [self EXCEPT !.signature = bind_caveat(self.signature, caveat_id),
                 !.caveats = Append(self.caveats,
                                third_party(caveat_id, verification_key_id, location))]

add_third_party_caveat(self, caveat_id, verification_key_id, location) ==
    [self EXCEPT !.signature = bind_caveat(self.signature, verification_key_id),
                 !.caveats = Append(self.caveats,
                                third_party(caveat_id, verification_key_id, location))]

caveat_count(self) == Len(self.caveats)

is_unrestricted(self) == Len(self.caveats) = 0

create_discharge(verification_key, caveat_id, location) ==
    new(verification_key, caveat_id, location)

\* Mutant: key and message of the binding MAC are swapped.
bind_discharge_swapped(self, discharge) ==
    [discharge EXCEPT !.signature = hmac_sha3(self.signature, discharge.signature)]

bind_discharge(self, discharge) ==
    [discharge EXCEPT !.signature = hmac_sha3(discharge.signature, self.signature)]

\* Mutant: each bound discharge is inserted right after the primary, which
\* reverses the order of the discharges.
RECURSIVE prepare_loop_reversed(_, _, _)
prepare_loop_reversed(self, discharges, result) ==
    IF discharges = <<>> THEN result
    ELSE prepare_loop_reversed(self, Tail(discharges),
            <<Head(result), bind_discharge(self, Head(discharges))>> \o Tail(result))

RECURSIVE prepare_loop(_, _, _)
prepare_loop(self, discharges, result) ==
    IF discharges = <<>> THEN result
    ELSE prepare_loop(self, Tail(discharges),
                      Append(result, bind_discharge(self, Head(discharges))))

prepare_for_request(self, discharges) == prepare_loop(self, discharges, <<self>>)

(***************************************************************************)
(* predicate.rs.  Text is a sequence of ASCII codes; `find` yields the     *)
(* 1-based position of the first occurrence of a pattern, 0 for none.      *)
(***************************************************************************)
is_whitespace(b) == b \in {9, 10, 11, 12, 13, 32}

RECURSIVE trim_start(_)
trim_start(s) ==
    IF s # <<>> /\ is_whitespace(Head(s)) THEN trim_start(Tail(s)) ELSE s

RECURSIVE trim_end(_)
trim_end(s) ==
    IF s # <<>> /\ is_whitespace(s[Len(s)])
    THEN trim_end(SubSeq(s, 1, Len(s) - 1)) ELSE s

\* No trimming at all.
trim_nothing(s) == s

trim(s) == trim_end(trim_start(s))

find(s, pat) ==
    LET hits == {i \in 1..(Len(s) - Len(pat) + 1) :
                    SubSeq(s, i, i + Len(pat) - 1) = pat}
    IN  IF hits = {} THEN 0 ELSE CHOOSE i \in hits : \A j \in hits : i <= j

\* The table with the one-character operators first.
operators_short_first == << <<61>>, <<60>>, <<62>>, <<60, 61>>, <<62, 61>>, <<33, 61>> >>

\* let operators = ["<=", ">=", "!=", "=", "<", ">"];
operators == << <<60, 61>>, <<62, 61>>, <<33, 61>>, <<61>>, <<60>>, <<62>> >>

Operator_parse(s) ==
    LET t == trim(s)
    IN  IF t = <<61>> THEN Some("Equal")
        ELSE IF t = <<33, 61>> THEN Some("NotEqual")
        ELSE IF t = <<60>> THEN Some("LessThan")
        ELSE IF t = <<62>> THEN Some("GreaterThan")
        ELSE IF t = <<60, 61>> THEN Some("LessThanOrEqual")
        ELSE IF t = <<62, 61>> THEN Some("GreaterThanOrEqual")
        ELSE None

\* Byte-lexicographic order of two strings (str's Ord).
RECURSIVE str_lt(_, _)
str_lt(a, b) ==
    IF b = <<>> THEN FALSE
    ELSE IF a = <<>> THEN TRUE
    ELSE IF Head(a) # Head(b) THEN Head(a) < Head(b)
    ELSE str_lt(Tail(a), Tail(b))

Operator_evaluate(op, left, right) ==
    CASE op = "Equal" -> left = right
      [] op = "NotEqual" -> left # right
      [] op = "LessThan" -> str_lt(left, right)
      [] op = "GreaterThan" -> str_lt(right, left)
      [] op = "LessThanOrEqual" -> ~str_lt(right, left)
      [] op = "GreaterThanOrEqual" -> ~str_lt(left, right)

\* The operands are integer-valued, for which |left - right| < f64::EPSILON
\* is equality.
Operator_evaluate_numeric(op, left, right) ==
    CASE op = "Equal" -> left = right
      [] op = "NotEqual" -> left # right
      [] op = "LessThan" -> left < right
      [] op = "GreaterThan" -> left > right
      [] op = "LessThanOrEqual" -> left <= right
      [] op = "GreaterThanOrEqual" -> left >= right

\* The Result<Predicate> of Predicate::parse: `result` is Ok or the error,
\* and `predicate` is meaningful when it is Ok.
NoPredicate == [key |-> <<>>, operator |-> "", value |-> <<>>]

RECURSIVE parse_from(_, _)
parse_from(s, n) ==
    IF n > Len(operators)
    THEN [result |-> Err("InvalidFormat", "No operator found in predicate"),
          predicate |-> NoPredicate]
    ELSE LET op_str == operators[n]
             pos == find(s, op_str)
         IN  IF pos = 0 THEN parse_from(s, n + 1)
             ELSE LET key == trim(SubSeq(s, 1, pos - 1))
                      value == trim(SubSeq(s, pos + Len(op_str), Len(s)))
                      operator == Operator_parse(op_str)
                  IN  IF key = <<>> \/ value = <<>>
                      THEN [result |-> Err("InvalidFormat", "Invalid predicate format"),
                            predicate |-> NoPredicate]
                      ELSE IF is_none(operator)
                      THEN [result |-> Err("InvalidFormat", "Unknown operator"),
                            predicate |-> NoPredicate]
                      ELSE [result |-> Ok,
                            predicate |-> [key |-> key,
                                           operator |-> operator[1],
                                           value |-> value]]

Predicate_parse(s) == parse_from(s, 1)

\* str::parse::<f64>, restricted to decimal integer literals with an optional
\* sign: Some(n) for those, None for any other text.  Fractions, exponents,
\* "inf" and "nan" lie outside the inputs of the model.
is_digit(b) == b >= 48 /\ b <= 57

RECURSIVE digits_value(_, _)
digits_value(s, acc) ==
    IF s = <<>> THEN acc
    ELSE digits_value(Tail(s), 10 * acc + (Head(s) - 48))

parse_f64(s) ==
    LET signed == s # <<>> /\ Head(s) \in {43, 45}
        body == IF signed THEN Tail(s) ELSE s
    IN  IF body = <<>> \/ \E i \in 1..Len(body) : ~is_digit(body[i]) THEN None
        ELSE IF signed /\ Head(s) = 45 THEN Some(0 - digits_value(body, 0))
        ELSE Some(digits_value(body, 0))

\* A key that the context lacks compared as the empty string.
Predicate_evaluate_absent_as_empty(self, context) ==
    LET actual_value == IF self.key \in DOMAIN context THEN context[self.key] ELSE <<>>
        actual_num == parse_f64(actual_value)
        expected_num == parse_f64(self.value)
    IN  IF is_some(actual_num) /\ is_some(expected_num)
        THEN Operator_evaluate_numeric(self.operator, actual_num[1], expected_num[1])
        ELSE Operator_evaluate(self.operator, actual_value, self.value)

\* The values compared as strings, whatever they are.
Predicate_evaluate_as_strings(self, context) ==
    IF self.key \notin DOMAIN context THEN FALSE
    ELSE Operator_evaluate(self.operator, context[self.key], self.value)

\* The context is a function from keys to values (HashMap<String, String>).
Predicate_evaluate(self, context) ==
    IF self.key \notin DOMAIN context THEN FALSE
    ELSE LET actual_value == context[self.key]
             actual_num == parse_f64(actual_value)
             expected_num == parse_f64(self.value)
         IN  IF is_some(actual_num) /\ is_some(expected_num)
             THEN Operator_evaluate_numeric(self.operator, actual_num[1], expected_num[1])
             ELSE Operator_evaluate(self.operator, actual_value, self.value)

(***************************************************************************)
(* verifier.rs.  A verifier is a record tagged with its type:              *)
(*   AcceptAll, RejectAll,                                                 *)
(*   Fn        - `accept`: the payloads the callable accepts, `err`: the   *)
(*               error it returns for any other payload,                   *)
(*   Composite - `verifiers`: the sequence of sub-verifiers,               *)
(*   Context   - `context`: the key -> value map.                          *)
(***************************************************************************)
AcceptAllVerifier == [type |-> "AcceptAll"]
RejectAllVerifier == [type |-> "RejectAll"]
FnVerifier(accept, err) == [type |-> "Fn", accept |-> accept, err |-> err]
CompositeVerifier(verifiers) == [type |-> "Composite", verifiers |-> verifiers]
ContextVerifier(context) == [type |-> "Context", context |-> context]

\* std::str::from_utf8 succeeds: the bytes are well-formed UTF-8.
cont(b) == b >= 128 /\ b <= 191

RECURSIVE is_utf8(_)
is_utf8(s) ==
    IF s = <<>> THEN TRUE
    ELSE LET b == s[1]
             n == Len(s)
         IN  IF b <= 127 THEN is_utf8(Tail(s))
             ELSE IF b >= 194 /\ b <= 223
             THEN n >= 2 /\ cont(s[2]) /\ is_utf8(SubSeq(s, 3, n))
             ELSE IF b >= 224 /\ b <= 239
             THEN /\ n >= 3 /\ cont(s[2]) /\ cont(s[3])
                  /\ (b = 224 => s[2] >= 160)
                  /\ (b = 237 => s[2] <= 159)
                  /\ is_utf8(SubSeq(s, 4, n))
             ELSE IF b >= 240 /\ b <= 244
             THEN /\ n >= 4 /\ cont(s[2]) /\ cont(s[3]) /\ cont(s[4])
                  /\ (b = 240 => s[2] >= 144)
                  /\ (b = 244 => s[2] <= 143)
                  /\ is_utf8(SubSeq(s, 5, n))
             ELSE FALSE

\* A text that does not parse reported as a violated caveat.
Context_verify_caveat_violation(self, predicate_bytes) ==
    IF ~is_utf8(predicate_bytes) THEN Err("InvalidFormat", "invalid utf-8")
    ELSE LET parsed == Predicate_parse(predicate_bytes)
         IN  IF is_ok(parsed.result) /\ Predicate_evaluate(parsed.predicate, self.context)
             THEN Ok
             ELSE Err("CaveatViolation", "Predicate failed")

Context_verify_caveat(self, predicate_bytes) ==
    IF ~is_utf8(predicate_bytes) THEN Err("InvalidFormat", "invalid utf-8")
    ELSE LET parsed == Predicate_parse(predicate_bytes)
         IN  IF ~is_ok(parsed.result) THEN parsed.result
             ELSE IF Predicate_evaluate(parsed.predicate, self.context) THEN Ok
             ELSE Err("CaveatViolation", "Predicate failed")

RECURSIVE verify_caveat(_, _)
\* The error of the last sub-verifier handed on when all of them reject.
Composite_verify_caveat_last_error(self, predicate) ==
    IF self.verifiers = <<>> THEN Ok
    ELSE IF \E i \in 1..Len(self.verifiers) :
                is_ok(verify_caveat(self.verifiers[i], predicate))
    THEN Ok
    ELSE verify_caveat(self.verifiers[Len(self.verifiers)], predicate)

Composite_verify_caveat(self, predicate) ==
    IF self.verifiers = <<>> THEN Ok
    ELSE IF \E i \in 1..Len(self.verifiers) :
                is_ok(verify_caveat(self.verifiers[i], predicate))
    THEN Ok
    ELSE Err("CaveatViolation", "predicate")

\* Verifier::verify_caveat, dispatched on the verifier's type.
verify_caveat(verifier, predicate) ==
    CASE verifier.type = "AcceptAll" -> Ok
      [] verifier.type = "RejectAll" -> Err("CaveatViolation", "predicate")
      [] verifier.type = "Fn" ->
            IF predicate \in verifier.accept THEN Ok ELSE verifier.err
      [] verifier.type = "Composite" -> Composite_verify_caveat(verifier, predicate)
      [] verifier.type = "Context" -> Context_verify_caveat(verifier, predicate)

(***************************************************************************)
(* stroopwafel.rs: verification.  Each step yields a record with the       *)
(* `result` (Ok or the error) and `calls`, the caveat payloads handed to   *)
(* verifier.verify_caveat so far, in the order of the calls.               *)
(***************************************************************************)

\* Mutant: the location of a caveat that has one is bound after its key.
RECURSIVE rebuild_chain_binds_location(_, _, _)
rebuild_chain_binds_location(computed_signature, caveats, i) ==
    IF i > Len(caveats) THEN computed_signature
    ELSE LET caveat == caveats[i]
             bound == IF is_first_party(caveat)
                      THEN bind_caveat(computed_signature, caveat.caveat_id)
                      ELSE IF is_some(caveat.verification_key_id)
                      THEN bind_caveat(computed_signature, caveat.verification_key_id[1])
                      ELSE computed_signature
         IN  rebuild_chain_binds_location(
                 IF is_some(caveat.location) THEN bind_caveat(bound, caveat.location[1])
                 ELSE bound,
                 caveats, i + 1)

\* Mutant: the caveat_id of a third-party caveat is bound after its key.
RECURSIVE rebuild_chain_binds_caveat_id(_, _, _)
rebuild_chain_binds_caveat_id(computed_signature, caveats, i) ==
    IF i > Len(caveats) THEN computed_signature
    ELSE LET caveat == caveats[i]
         IN  IF is_first_party(caveat)
             THEN rebuild_chain_binds_caveat_id(
                      bind_caveat(computed_signature, caveat.caveat_id), caveats, i + 1)
             ELSE IF is_some(caveat.verification_key_id)
             THEN rebuild_chain_binds_caveat_id(
                      bind_caveat(bind_caveat(computed_signature,
                                              caveat.verification_key_id[1]),
                                  caveat.caveat_id),
                      caveats, i + 1)
             ELSE rebuild_chain_binds_caveat_id(computed_signature, caveats, i + 1)

\* One pass of the chain-rebuilding loop over the caveats from position i.
RECURSIVE rebuild_chain(_, _, _)
rebuild_chain(computed_signature, caveats, i) ==
    IF i > Len(caveats) THEN computed_signature
    ELSE LET caveat == caveats[i]
         IN  IF is_first_party(caveat)
             THEN rebuild_chain(bind_caveat(computed_signature, caveat.caveat_id),
                                caveats, i + 1)
             ELSE IF is_some(caveat.verification_key_id)
             THEN rebuild_chain(bind_caveat(computed_signature,
                                            caveat.verification_key_id[1]),
                                caveats, i + 1)
             ELSE rebuild_chain(computed_signature, caveats, i + 1)

\* Mutant: the error of a discharge's caveat is dropped.
RECURSIVE discharge_caveats_ignored(_, _, _, _)
discharge_caveats_ignored(self, verifier, i, calls) ==
    IF i > Len(self.caveats) THEN [result |-> Ok, calls |-> calls]
    ELSE LET caveat == self.caveats[i]
         IN  IF is_first_party(caveat)
             THEN discharge_caveats_ignored(self, verifier, i + 1,
                                            Append(calls, caveat.caveat_id))
             ELSE discharge_caveats_ignored(self, verifier, i + 1, calls)

\* Mutant: every caveat of the discharge is handed to the verifier.
RECURSIVE discharge_caveats_all(_, _, _, _)
discharge_caveats_all(self, verifier, i, calls) ==
    IF i > Len(self.caveats) THEN [result |-> Ok, calls |-> calls]
    ELSE LET caveat == self.caveats[i]
             r == verify_caveat(verifier, caveat.caveat_id)
             made == Append(calls, caveat.caveat_id)
         IN  IF is_ok(r) THEN discharge_caveats_all(self, verifier, i + 1, made)
             ELSE [result |-> r, calls |-> made]

\* Step 4 of verify_discharge: the discharge's first-party caveats.
RECURSIVE discharge_caveats(_, _, _, _)
discharge_caveats(self, verifier, i, calls) ==
    IF i > Len(self.caveats) THEN [result |-> Ok, calls |-> calls]
    ELSE LET caveat == self.caveats[i]
         IN  IF is_first_party(caveat)
             THEN LET r == verify_caveat(verifier, caveat.caveat_id)
                      made == Append(calls, caveat.caveat_id)
                  IN  IF is_ok(r) THEN discharge_caveats(self, verifier, i + 1, made)
                      ELSE [result |-> r, calls |-> made]
             ELSE discharge_caveats(self, verifier, i + 1, calls)

\* Mutant: step 2 is left out, the rebuilt chain is compared as it is.
verify_discharge_unbound(self, verification_key, primary_signature, verifier, calls) ==
    LET computed_signature ==
            rebuild_chain(hmac_sha3(verification_key, self.identifier), self.caveats, 1)
    IN  IF computed_signature # self.signature
        THEN [result |-> Err("InvalidSignature", ""), calls |-> calls]
        ELSE discharge_caveats(self, verifier, 1, calls)

\* Mutant: step 3 is left out, the signature of the discharge is not compared.
verify_discharge_unchecked(self, verification_key, primary_signature, verifier, calls) ==
    discharge_caveats(self, verifier, 1, calls)

verify_discharge(self, verification_key, primary_signature, verifier, calls) ==
    LET computed_signature ==
            rebuild_chain(hmac_sha3(verification_key, self.identifier), self.caveats, 1)
        expected_signature == hmac_sha3(computed_signature, primary_signature)
    IN  IF expected_signature # self.signature
        THEN [result |-> Err("InvalidSignature", ""), calls |-> calls]
        ELSE discharge_caveats(self, verifier, 1, calls)

\* Mutant: the last discharge with the identifier is taken.
find_discharge_last(discharges, caveat_id) ==
    LET hits == {i \in 1..Len(discharges) : discharges[i].identifier = caveat_id}
    IN  IF hits = {} THEN 0 ELSE CHOOSE i \in hits : \A j \in hits : i >= j

\* Mutant: the first discharge is taken, whatever its identifier.
find_discharge_any(discharges, caveat_id) == IF discharges = <<>> THEN 0 ELSE 1

\* discharges.iter().position(|d| d.identifier == caveat_id), 0 for none.
find_discharge(discharges, caveat_id) ==
    LET hits == {i \in 1..Len(discharges) : discharges[i].identifier = caveat_id}
    IN  IF hits = {} THEN 0 ELSE CHOOSE i \in hits : \A j \in hits : i <= j

\* Mutant: the verification key is asked for before the discharge is looked up.
verify_third_party_caveat_key_first(self, caveat, discharges, verifier, calls) ==
    LET d == find_discharge(discharges, caveat.caveat_id)
    IN  IF is_none(caveat.verification_key_id)
        THEN [result |-> Err("InvalidFormat", "Third-party caveat missing verification key"),
              calls |-> calls]
        ELSE IF d = 0
        THEN [result |-> Err("CaveatViolation", "Missing discharge macaroon for caveat"),
              calls |-> calls]
        ELSE verify_discharge(discharges[d], caveat.verification_key_id[1],
                              self.signature, verifier, calls)

verify_third_party_caveat(self, caveat, discharges, verifier, calls) ==
    LET d == find_discharge(discharges, caveat.caveat_id)
    IN  IF d = 0
        THEN [result |-> Err("CaveatViolation", "Missing discharge macaroon for caveat"),
              calls |-> calls]
        ELSE IF is_none(caveat.verification_key_id)
        THEN [result |-> Err("InvalidFormat", "Third-party caveat missing verification key"),
              calls |-> calls]
        ELSE verify_discharge(discharges[d], caveat.verification_key_id[1],
                              self.signature, verifier, calls)

\* Mutant: the error of a caveat does not end the loop; the result of the
\* last caveat is returned.
RECURSIVE verify_caveats_no_return(_, _, _, _, _)
verify_caveats_no_return(self, verifier, discharges, i, calls) ==
    IF i > Len(self.caveats) THEN [result |-> Ok, calls |-> calls]
    ELSE LET caveat == self.caveats[i]
             r == IF is_first_party(caveat)
                  THEN [result |-> verify_caveat(verifier, caveat.caveat_id),
                        calls |-> Append(calls, caveat.caveat_id)]
                  ELSE verify_third_party_caveat(self, caveat, discharges, verifier, calls)
         IN  IF is_ok(r.result) \/ i < Len(self.caveats)
             THEN verify_caveats_no_return(self, verifier, discharges, i + 1, r.calls)
             ELSE r

\* Mutant: the caveats are checked from the last one to the first.
RECURSIVE verify_caveats_last_first(_, _, _, _, _)
verify_caveats_last_first(self, verifier, discharges, i, calls) ==
    IF i > Len(self.caveats) THEN [result |-> Ok, calls |-> calls]
    ELSE LET caveat == self.caveats[Len(self.caveats) + 1 - i]
             r == IF is_first_party(caveat)
                  THEN [result |-> verify_caveat(verifier, caveat.caveat_id),
                        calls |-> Append(calls, caveat.caveat_id)]
                  ELSE verify_third_party_caveat(self, caveat, discharges, verifier, calls)
         IN  IF is_ok(r.result)
             THEN verify_caveats_last_first(self, verifier, discharges, i + 1, r.calls)
             ELSE r

\* Step 3 of verify: each caveat in insertion order, stopping at the first error.
RECURSIVE verify_caveats(_, _, _, _, _)
verify_caveats(self, verifier, discharges, i, calls) ==
    IF i > Len(self.caveats) THEN [result |-> Ok, calls |-> calls]
    ELSE LET caveat == self.caveats[i]
             r == IF is_first_party(caveat)
                  THEN [result |-> verify_caveat(verifier, caveat.caveat_id),
                        calls |-> Append(calls, caveat.caveat_id)]
                  ELSE verify_third_party_caveat(self, caveat, discharges, verifier, calls)
         IN  IF is_ok(r.result)
             THEN verify_caveats(self, verifier, discharges, i + 1, r.calls)
             ELSE r

\* Mutant: the caveats are checked before the signature is compared.
verify_caveats_first(self, root_key, verifier, discharges) ==
    LET computed_signature ==
            rebuild_chain(hmac_sha3(root_key, self.identifier), self.caveats, 1)
        r == verify_caveats(self, verifier, discharges, 1, <<>>)
    IN  IF ~is_ok(r.result) THEN r
        ELSE IF computed_signature # self.signature
        THEN [result |-> Err("InvalidSignature", ""), calls |-> r.calls]
        ELSE r

verify(self, root_key, verifier, discharges) ==
    LET computed_signature ==
            rebuild_chain(hmac_sha3(root_key, self.identifier), self.caveats, 1)
    IN  IF computed_signature # self.signature
        THEN [result |-> Err("InvalidSignature", ""), calls |-> <<>>]
        ELSE verify_caveats(self, verifier, discharges, 1, <<>>)

(***************************************************************************)
(* serialization.rs: the binary codec.  rmp_serde::to_vec writes the       *)
(* records that stroopwafel.rs and caveat.rs derive Serialize for: a       *)
(* struct is an array of its fields in declaration order, Vec<u8> and      *)
(* [u8; 32] are arrays of integers, a String is a str, None is nil and     *)
(* Some(x) is x.  The decoder is modelled on this layout; the other        *)
(* layouts it accepts (maps keyed by field name, wider integer formats)    *)
(* are outside the model.  The marker of a modelled MAC tag is no byte;    *)
(* it travels as a negative fixint, in a signature only, and the length    *)
(* of a signature is that of the tag (32 in the code).                     *)
(***************************************************************************)
\* The result of a reader: `ok`, the `value` read and the `rest` of the input.
Fail == [ok |-> FALSE, value |-> <<>>, rest |-> <<>>]
Parsed(value, rest) == [ok |-> TRUE, value |-> value, rest |-> rest]
DropFirst(s, n) == SubSeq(s, n + 1, Len(s))
\* A reader of a field continues from the result `before` of the reader of
\* the field before it; the first failure is the result of all that follow.
Start(input) == Parsed(<<>>, input)
\* The value a reader returned, named for the steps that follow it: the one
\* element of {step(r) : r \in {reader}}.
The(S) == CHOOSE v \in S : TRUE

rmp_write_nil == <<192>>

\* positive fixint, uint 8, or (marker) negative fixint
rmp_write_u8(n) ==
    IF n < 0 THEN <<256 + n>> ELSE IF n < 128 THEN <<n>> ELSE <<204, n>>

\* fixarray or array 16
rmp_write_array_len(n) ==
    IF n < 16 THEN <<144 + n>> ELSE <<220, n \div 256, n % 256>>

\* fixstr or str 8
rmp_write_str(s) ==
    (IF Len(s) < 32 THEN <<160 + Len(s)>> ELSE <<217, Len(s)>>) \o s

RECURSIVE rmp_write_elements(_)
rmp_write_elements(bytes) ==
    IF bytes = <<>> THEN <<>>
    ELSE rmp_write_u8(Head(bytes)) \o rmp_write_elements(Tail(bytes))

rmp_write_bytes(bytes) == rmp_write_array_len(Len(bytes)) \o rmp_write_elements(bytes)

rmp_write_option_bytes(o) ==
    IF is_none(o) THEN rmp_write_nil ELSE rmp_write_bytes(o[1])

\* Mutant: an absent string is written as the empty string.
rmp_write_option_str_empty(o) ==
    IF is_none(o) THEN rmp_write_str(<<>>) ELSE rmp_write_str(o[1])

rmp_write_option_str(o) ==
    IF is_none(o) THEN rmp_write_nil ELSE rmp_write_str(o[1])

rmp_write_caveat(c) ==
    rmp_write_array_len(3)
        \o rmp_write_bytes(c.caveat_id)
        \o rmp_write_option_bytes(c.verification_key_id)
        \o rmp_write_option_str(c.location)

RECURSIVE rmp_write_caveats(_)
rmp_write_caveats(caveats) ==
    IF caveats = <<>> THEN <<>>
    ELSE rmp_write_caveat(Head(caveats)) \o rmp_write_caveats(Tail(caveats))

to_msgpack(self) ==
    rmp_write_array_len(4)
        \o rmp_write_option_str(self.location)
        \o rmp_write_bytes(self.identifier)
        \o rmp_write_array_len(Len(self.caveats)) \o rmp_write_caveats(self.caveats)
        \o rmp_write_bytes(self.signature)

\* An element of a byte array; `marker` admits the marker of a tag.
rmp_read_u8(b, marker) ==
    IF b = <<>> THEN Fail
    ELSE IF b[1] < 128 THEN Parsed(b[1], Tail(b))
    ELSE IF b[1] = 204 /\ Len(b) >= 2 THEN Parsed(b[2], DropFirst(b, 2))
    ELSE IF marker /\ b[1] >= 224 THEN Parsed(b[1] - 256, Tail(b))
    ELSE Fail

rmp_read_array_len(before) ==
    LET b == before.rest
    IN  IF ~before.ok \/ b = <<>> THEN Fail
        ELSE IF b[1] >= 144 /\ b[1] <= 159 THEN Parsed(b[1] - 144, Tail(b))
        ELSE IF b[1] = 220 /\ Len(b) >= 3 THEN Parsed(256 * b[2] + b[3], DropFirst(b, 3))
        ELSE Fail

RECURSIVE rmp_read_elements(_, _, _, _)
rmp_read_elements(b, n, acc, marker) ==
    IF n = 0 THEN Parsed(acc, b)
    ELSE The({IF ~e.ok THEN Fail
              ELSE rmp_read_elements(e.rest, n - 1, Append(acc, e.value), marker)
              : e \in {rmp_read_u8(b, marker)}})

rmp_read_bytes(before, marker) ==
    The({IF ~n.ok THEN Fail
         ELSE rmp_read_elements(n.rest, n.value, <<>>, marker)
         : n \in {rmp_read_array_len(before)}})

rmp_read_str_len(b) ==
    IF b = <<>> THEN Fail
    ELSE IF b[1] >= 160 /\ b[1] <= 191 THEN Parsed(b[1] - 160, Tail(b))
    ELSE IF b[1] = 217 /\ Len(b) >= 2 THEN Parsed(b[2], DropFirst(b, 2))
    ELSE Fail

rmp_read_str(before) ==
    The({IF ~n.ok \/ Len(n.rest) < n.value THEN Fail
         ELSE IF ~is_utf8(SubSeq(n.rest, 1, n.value)) THEN Fail
         ELSE Parsed(SubSeq(n.rest, 1, n.value), DropFirst(n.rest, n.value))
         : n \in {IF before.ok THEN rmp_read_str_len(before.rest) ELSE Fail}})

\* Some(v) of what a reader returned.
Optional(v) == IF v.ok THEN Parsed(Some(v.value), v.rest) ELSE Fail

rmp_is_nil(before) == before.ok /\ before.rest # <<>> /\ before.rest[1] = 192

rmp_read_option_bytes(before) ==
    IF rmp_is_nil(before) THEN Parsed(None, Tail(before.rest))
    ELSE Optional(rmp_read_bytes(before, FALSE))

rmp_read_option_str(before) ==
    IF rmp_is_nil(before) THEN Parsed(None, Tail(before.rest))
    ELSE Optional(rmp_read_str(before))

\* The fields of a Caveat, in the order of their declaration.
rmp_read_caveat(b) ==
    The({The({The({The({
        IF ~loc.ok \/ n.value # 3 THEN Fail
        ELSE Parsed([caveat_id |-> id.value,
                     verification_key_id |-> vk.value,
                     location |-> loc.value],
                    loc.rest)
        : loc \in {rmp_read_option_str(vk)}})
        : vk \in {rmp_read_option_bytes(id)}})
        : id \in {rmp_read_bytes(n, FALSE)}})
        : n \in {rmp_read_array_len(Start(b))}})

RECURSIVE rmp_read_caveats_from(_, _, _)
rmp_read_caveats_from(b, n, acc) ==
    IF n = 0 THEN Parsed(acc, b)
    ELSE The({IF ~c.ok THEN Fail
              ELSE rmp_read_caveats_from(c.rest, n - 1, Append(acc, c.value))
              : c \in {rmp_read_caveat(b)}})

rmp_read_caveats(before) ==
    The({IF ~n.ok THEN Fail
         ELSE rmp_read_caveats_from(n.rest, n.value, <<>>)
         : n \in {rmp_read_array_len(before)}})

\* The fields of a Stroopwafel, in the order of their declaration.
rmp_read_token(b) ==
    The({The({The({The({The({
        IF ~sig.ok \/ n.value # 4 THEN Fail
        ELSE Parsed([location |-> loc.value,
                     identifier |-> id.value,
                     caveats |-> cs.value,
                     signature |-> sig.value],
                    sig.rest)
        : sig \in {rmp_read_bytes(cs, TRUE)}})
        : cs \in {rmp_read_caveats(id)}})
        : id \in {rmp_read_bytes(loc, FALSE)}})
        : loc \in {rmp_read_option_str(n)}})
        : n \in {rmp_read_array_len(Start(b))}})

\* The Result<Stroopwafel> of a decoder: `result` is Ok or the error, and
\* `value` is the token when it is Ok.
Decoded(value) == [result |-> Ok, value |-> value]
DecodeError == [result |-> Err("DeserializationError", ""), value |-> <<>>]

\* The decoder does not look at what follows the record.
from_msgpack(data) ==
    The({IF t.ok THEN Decoded(t.value) ELSE DecodeError
         : t \in {rmp_read_token(data)}})

(***************************************************************************)
(* serialization.rs: the textual wrappings of the binary codec.            *)
(* hex::encode writes two lowercase digits a byte; hex::decode takes       *)
(* digits of either case and fails on an odd length or any other           *)
(* character.  URL_SAFE_NO_PAD writes the alphabet A-Z a-z 0-9 - _ with    *)
(* no padding; its decoder fails on any other character, on a length of    *)
(* 1 modulo 4 and on non-zero bits after the last byte.                    *)
(***************************************************************************)
hex_digit(n) == IF n < 10 THEN 48 + n ELSE 87 + n

RECURSIVE hex_encode(_)
hex_encode(bytes) ==
    IF bytes = <<>> THEN <<>>
    ELSE <<hex_digit(Head(bytes) \div 16), hex_digit(Head(bytes) % 16)>>
            \o hex_encode(Tail(bytes))

\* The value of a hex digit, -1 for any other character.
hex_value(c) ==
    IF c >= 48 /\ c <= 57 THEN c - 48
    ELSE IF c >= 97 /\ c <= 102 THEN c - 87
    ELSE IF c >= 65 /\ c <= 70 THEN c - 55
    ELSE 0 - 1

RECURSIVE hex_decode_from(_, _)
hex_decode_from(str, acc) ==
    IF str = <<>> THEN Parsed(acc, <<>>)
    ELSE IF hex_value(str[1]) < 0 \/ hex_value(str[2]) < 0 THEN Fail
    ELSE hex_decode_from(DropFirst(str, 2),
                         Append(acc, 16 * hex_value(str[1]) + hex_value(str[2])))

hex_decode(str) == IF Len(str) % 2 = 1 THEN Fail ELSE hex_decode_from(str, <<>>)

to_hex(self) == hex_encode(to_msgpack(self))

from_hex(hex_str) ==
    LET msgpack == hex_decode(hex_str)
    IN  IF msgpack.ok THEN from_msgpack(msgpack.value) ELSE DecodeError

base64_symbol(n) ==
    IF n < 26 THEN 65 + n
    ELSE IF n < 52 THEN 71 + n
    ELSE IF n < 62 THEN n - 4
    ELSE IF n = 62 THEN 45
    ELSE 95

RECURSIVE base64_encode(_)
base64_encode(bytes) ==
    IF bytes = <<>> THEN <<>>
    ELSE IF Len(bytes) = 1
    THEN <<base64_symbol(bytes[1] \div 4), base64_symbol((bytes[1] % 4) * 16)>>
    ELSE IF Len(bytes) = 2
    THEN <<base64_symbol(bytes[1] \div 4),
           base64_symbol((bytes[1] % 4) * 16 + bytes[2] \div 16),
           base64_symbol((bytes[2] % 16) * 4)>>
    ELSE <<base64_symbol(bytes[1] \div 4),
           base64_symbol((bytes[1] % 4) * 16 + bytes[2] \div 16),
           base64_symbol((bytes[2] % 16) * 4 + bytes[3] \div 64),
           base64_symbol(bytes[3] % 64)>>
            \o base64_encode(DropFirst(bytes, 3))

\* The value of a symbol of the alphabet, -1 for any other character.
base64_value(c) ==
    IF c >= 65 /\ c <= 90 THEN c - 65
    ELSE IF c >= 97 /\ c <= 122 THEN c - 71
    ELSE IF c >= 48 /\ c <= 57 THEN c + 4
    ELSE IF c = 45 THEN 62
    ELSE IF c = 95 THEN 63
    ELSE 0 - 1

RECURSIVE base64_decode_from(_, _)
base64_decode_from(str, acc) ==
    LET v(i) == base64_value(str[i])
    IN  IF str = <<>> THEN Parsed(acc, <<>>)
        ELSE IF Len(str) = 1 \/ v(1) < 0 \/ v(2) < 0 THEN Fail
        ELSE IF Len(str) = 2
        THEN IF v(2) % 16 # 0 THEN Fail
             ELSE Parsed(Append(acc, 4 * v(1) + v(2) \div 16), <<>>)
        ELSE IF v(3) < 0 THEN Fail
        ELSE IF Len(str) = 3
        THEN IF v(3) % 4 # 0 THEN Fail
             ELSE Parsed(acc \o <<4 * v(1) + v(2) \div 16,
                                  16 * (v(2) % 16) + v(3) \div 4>>, <<>>)
        ELSE IF v(4) < 0 THEN Fail
        ELSE base64_decode_from(DropFirst(str, 4),
                                acc \o <<4 * v(1) + v(2) \div 16,
                                         16 * (v(2) % 16) + v(3) \div 4,
                                         64 * (v(3) % 4) + v(4)>>)

base64_decode(str) == base64_decode_from(str, <<>>)

to_base64(self) == base64_encode(to_msgpack(self))

from_base64(b64) ==
    LET bytes == base64_decode(b64)
    IN  IF bytes.ok THEN from_msgpack(bytes.value) ELSE DecodeError

(***************************************************************************)
(* serialization.rs: the JSON codec.  serde_json::to_string writes the     *)
(* derived records as objects with the fields in declaration order and no  *)
(* white space: Vec<u8> and [u8; 32] are arrays of decimal numbers, a      *)
(* String is a quoted string with '"' and '\' escaped, None is null.  The  *)
(* decoder is modelled on this layout; white space, other field orders,    *)
(* control characters and the other escapes are outside the model.  The    *)
(* marker of a modelled MAC tag is written as a negative number.           *)
(***************************************************************************)
\* "null"
json_null == <<110, 117, 108, 108>>
\* The names of the fields of Stroopwafel and of Caveat.
field_name ==
    [location |-> <<108, 111, 99, 97, 116, 105, 111, 110>>,
     identifier |-> <<105, 100, 101, 110, 116, 105, 102, 105, 101, 114>>,
     caveats |-> <<99, 97, 118, 101, 97, 116, 115>>,
     signature |-> <<115, 105, 103, 110, 97, 116, 117, 114, 101>>,
     caveat_id |-> <<99, 97, 118, 101, 97, 116, 95, 105, 100>>,
     verification_key_id |-> <<118, 101, 114, 105, 102, 105, 99, 97, 116, 105,
                               111, 110, 95, 107, 101, 121, 95, 105, 100>>]

RECURSIVE json_digits(_)
json_digits(n) ==
    IF n < 10 THEN <<48 + n>> ELSE json_digits(n \div 10) \o <<48 + (n % 10)>>

json_write_u8(n) == IF n < 0 THEN <<45>> \o json_digits(0 - n) ELSE json_digits(n)

RECURSIVE json_write_elements(_)
json_write_elements(bytes) ==
    IF bytes = <<>> THEN <<>>
    ELSE IF Len(bytes) = 1 THEN json_write_u8(bytes[1])
    ELSE json_write_u8(bytes[1]) \o <<44>> \o json_write_elements(Tail(bytes))

json_write_bytes(bytes) == <<91>> \o json_write_elements(bytes) \o <<93>>

RECURSIVE json_escape(_)
json_escape(s) ==
    IF s = <<>> THEN <<>>
    ELSE (IF Head(s) \in {34, 92} THEN <<92, Head(s)>> ELSE <<Head(s)>>)
            \o json_escape(Tail(s))

json_write_str(s) == <<34>> \o json_escape(s) \o <<34>>

json_write_option_bytes(o) == IF is_none(o) THEN json_null ELSE json_write_bytes(o[1])

json_write_option_str(o) == IF is_none(o) THEN json_null ELSE json_write_str(o[1])

json_key(name) == <<34>> \o name \o <<34, 58>>

json_write_caveat(c) ==
    <<123>> \o json_key(field_name.caveat_id) \o json_write_bytes(c.caveat_id)
        \o <<44>> \o json_key(field_name.verification_key_id)
        \o json_write_option_bytes(c.verification_key_id)
        \o <<44>> \o json_key(field_name.location) \o json_write_option_str(c.location)
        \o <<125>>

RECURSIVE json_write_caveats(_)
json_write_caveats(caveats) ==
    IF caveats = <<>> THEN <<>>
    ELSE IF Len(caveats) = 1 THEN json_write_caveat(caveats[1])
    ELSE json_write_caveat(caveats[1]) \o <<44>> \o json_write_caveats(Tail(caveats))

to_json(self) ==
    <<123>> \o json_key(field_name.location) \o json_write_option_str(self.location)
        \o <<44>> \o json_key(field_name.identifier) \o json_write_bytes(self.identifier)
        \o <<44>> \o json_key(field_name.caveats)
        \o <<91>> \o json_write_caveats(self.caveats) \o <<93>>
        \o <<44>> \o json_key(field_name.signature) \o json_write_bytes(self.signature)
        \o <<125>>

\* Punctuation, or punctuation and the key of a member.
json_expect(before, lit) ==
    IF before.ok /\ Len(before.rest) >= Len(lit) /\ SubSeq(before.rest, 1, Len(lit)) = lit
    THEN Parsed(lit, DropFirst(before.rest, Len(lit)))
    ELSE Fail

RECURSIVE json_read_digits(_, _)
json_read_digits(str, acc) ==
    IF str # <<>> /\ is_digit(str[1]) /\ acc <= 255
    THEN json_read_digits(Tail(str), 10 * acc + (str[1] - 48))
    ELSE Parsed(acc, str)

\* A number that fits a u8, with no leading zero; `marker` admits the
\* negative number of a tag's marker.
json_read_u8(str, marker) ==
    LET negative == marker /\ str # <<>> /\ str[1] = 45
        body == IF negative THEN Tail(str) ELSE str
    IN  IF body = <<>> \/ ~is_digit(body[1]) THEN Fail
        ELSE IF body[1] = 48 /\ Len(body) >= 2 /\ is_digit(body[2]) THEN Fail
        ELSE The({IF ~n.ok \/ n.value > 255 THEN Fail
                  ELSE Parsed(IF negative THEN 0 - n.value ELSE n.value, n.rest)
                  : n \in {json_read_digits(body, 0)}})

RECURSIVE json_read_elements(_, _, _)
json_read_elements(str, acc, marker) ==
    The({IF ~e.ok \/ e.rest = <<>> THEN Fail
         ELSE IF e.rest[1] = 93 THEN Parsed(Append(acc, e.value), Tail(e.rest))
         ELSE IF e.rest[1] = 44
         THEN json_read_elements(Tail(e.rest), Append(acc, e.value), marker)
         ELSE Fail
         : e \in {json_read_u8(str, marker)}})

json_read_bytes(before, marker) ==
    LET str == before.rest
    IN  IF ~before.ok \/ Len(str) < 2 \/ str[1] # 91 THEN Fail
        ELSE IF str[2] = 93 THEN Parsed(<<>>, DropFirst(str, 2))
        ELSE json_read_elements(Tail(str), <<>>, marker)

RECURSIVE json_read_chars(_, _)
json_read_chars(str, acc) ==
    IF str = <<>> THEN Fail
    ELSE IF str[1] = 34 THEN Parsed(acc, Tail(str))
    ELSE IF str[1] = 92
    THEN IF Len(str) >= 2 /\ str[2] \in {34, 92}
         THEN json_read_chars(DropFirst(str, 2), Append(acc, str[2]))
         ELSE Fail
    ELSE IF str[1] < 32 THEN Fail
    ELSE json_read_chars(Tail(str), Append(acc, str[1]))

json_read_str(before) ==
    IF ~before.ok \/ before.rest = <<>> \/ before.rest[1] # 34 THEN Fail
    ELSE The({IF v.ok /\ is_utf8(v.value) THEN v ELSE Fail
              : v \in {json_read_chars(Tail(before.rest), <<>>)}})

json_is_null(before) ==
    before.ok /\ Len(before.rest) >= 4 /\ SubSeq(before.rest, 1, 4) = json_null

json_read_option_bytes(before) ==
    IF json_is_null(before) THEN Parsed(None, DropFirst(before.rest, 4))
    ELSE Optional(json_read_bytes(before, FALSE))

json_read_option_str(before) ==
    IF json_is_null(before) THEN Parsed(None, DropFirst(before.rest, 4))
    ELSE Optional(json_read_str(before))

\* The members of a Caveat, in the order of their declaration.
json_read_caveat(str) ==
    The({The({The({The({
        IF ~close.ok THEN Fail
        ELSE Parsed([caveat_id |-> id.value,
                     verification_key_id |-> vk.value,
                     location |-> loc.value],
                    close.rest)
        : close \in {json_expect(loc, <<125>>)}})
        : loc \in {json_read_option_str(
                       json_expect(vk, <<44>> \o json_key(field_name.location)))}})
        : vk \in {json_read_option_bytes(
                      json_expect(id, <<44>> \o json_key(field_name.verification_key_id)))}})
        : id \in {json_read_bytes(
                      json_expect(Start(str), <<123>> \o json_key(field_name.caveat_id)),
                      FALSE)}})

RECURSIVE json_read_caveats_from(_, _)
json_read_caveats_from(str, acc) ==
    The({IF ~c.ok \/ c.rest = <<>> THEN Fail
         ELSE IF c.rest[1] = 93 THEN Parsed(Append(acc, c.value), Tail(c.rest))
         ELSE IF c.rest[1] = 44
         THEN json_read_caveats_from(Tail(c.rest), Append(acc, c.value))
         ELSE Fail
         : c \in {json_read_caveat(str)}})

json_read_caveats(before) ==
    LET str == before.rest
    IN  IF ~before.ok \/ Len(str) < 2 \/ str[1] # 91 THEN Fail
        ELSE IF str[2] = 93 THEN Parsed(<<>>, DropFirst(str, 2))
        ELSE json_read_caveats_from(Tail(str), <<>>)

\* The members of a Stroopwafel, in the order of their declaration.
json_read_token(str) ==
    The({The({The({The({The({
        IF ~close.ok THEN Fail
        ELSE Parsed([location |-> loc.value,
                     identifier |-> id.value,
                     caveats |-> cs.value,
                     signature |-> sig.value],
                    close.rest)
        : close \in {json_expect(sig, <<125>>)}})
        : sig \in {json_read_bytes(
                       json_expect(cs, <<44>> \o json_key(field_name.signature)), TRUE)}})
        : cs \in {json_read_caveats(
                      json_expect(id, <<44>> \o json_key(field_name.caveats)))}})
        : id \in {json_read_bytes(
                      json_expect(loc, <<44>> \o json_key(field_name.identifier)), FALSE)}})
        : loc \in {json_read_option_str(
                       json_expect(Start(str), <<123>> \o json_key(field_name.location)))}})

\* Characters after the value are an error.
from_json(json) ==
    The({IF t.ok /\ t.rest = <<>> THEN Decoded(t.value) ELSE DecodeError
         : t \in {json_read_token(json)}})

(***************************************************************************)
(* The values the callers draw their arguments from.                       *)
(***************************************************************************)
\* "k", the key the issuer mints with, and "k2", another key
IssuerKey == <<107>>
RootKeys == {<<107>>, <<107, 50>>}
\* "id"
Identifiers == {<<105, 100>>}
\* None, Some("L")
TokenLocations == {None, Some(<<76>>)}
\* "a=1", "zz" (a text with no operator)
Predicates == {<<97, 61, 49>>, <<122, 122>>}
\* "A", "B"
CaveatIds == {<<65>>, <<66>>}
\* "v", "w"
VerificationKeys == {<<118>>, <<119>>}
\* The third-party caveats of the issuer, (caveat_id, verification key):
\* ("A", "v") and ("B", "w"); their location is "T".
ThirdParties == {<< <<65>>, <<118>> >>, << <<66>>, <<119>> >>}
ThirdPartyLocation == <<84>>

\* The verifiers handed to verify; the contexts are {a: "1"} and {a: "2"}.
Verifiers ==
    {AcceptAllVerifier,
     RejectAllVerifier,
     FnVerifier({<<97, 61, 49>>}, Err("CryptoError", "callable failed")),
     CompositeVerifier(<<RejectAllVerifier, ContextVerifier(<<97>> :> <<49>>)>>),
     ContextVerifier(<<97>> :> <<49>>),
     ContextVerifier(<<97>> :> <<50>>)}

\* signature[byte_pos] ^= 1 << bit_pos
RECURSIVE pow2(_)
pow2(n) == IF n = 0 THEN 1 ELSE 2 * pow2(n - 1)

flip_bit(signature, byte_pos, bit_pos) ==
    LET b == signature[byte_pos]
        m == pow2(bit_pos)
    IN  [signature EXCEPT ![byte_pos] = IF (b \div m) % 2 = 1 THEN b - m ELSE b + m]

(***************************************************************************)
(* State.  The token flow (specification Spec):                            *)
(*   rootKey    the issuer's root key                                      *)
(*   primary    the primary token, minted under rootKey                    *)
(*   discharges the discharge tokens the third parties minted (unbound)    *)
(*   request    the vector prepare_for_request returned, <<>> before the   *)
(*              call                                                       *)
(*   outcome    None, or Some of the arguments and the result of verify    *)
(*   pc         "build" while tokens are minted and attenuated,            *)
(*              "prepared" once prepare_for_request has returned,          *)
(*              "verified" once verify has returned                        *)
(* Two tokens built side by side (specification PairSpec):                 *)
(*   tokenL, tokenR  the two tokens                                        *)
(*   verdicts     None, or Some of the arguments of one verify call made   *)
(*                on each token and the two results                        *)
(* A token sent over the wire (specification CodecSpec):                   *)
(*   original   the token the sender holds                                 *)
(*   origin     how it was made: "api" by new and the append calls, "bound" *)
(*              by bind_discharge after those, "fields" when a field of a  *)
(*              caveat was assigned directly                               *)
(*   wire       None, or Some of the codec and the encoded text or bytes   *)
(*   decoded    None, or Some of what the matching decoder returned        *)
(* A predicate and a context (specification PredicateSpec):                *)
(*   input      the caveat payload, a predicate text                       *)
(*   ctx        the key -> value map of the verifier                       *)
(*   evaluation None, or Some of what parse, evaluate and the context      *)
(*              verifier returned for input                                *)
(* A composite verifier (specification CompositeSpec):                     *)
(*   input      the caveat payload                                         *)
(*   evaluation the composite built so far and None, or Some of what its   *)
(*              verify_caveat returned for input                           *)
(* A holder who edits the fields of the tokens (specification HolderSpec)  *)
(* uses the variables of the token flow: primary and discharges are the    *)
(* tokens before binding, request is the bound vector after the holder's   *)
(* edit, pc is "build", "prepared", then "appended", "deleted" or          *)
(* "replaced" after an edit, then "verified"; outcome also records under   *)
(* `edit` the value of pc when verify was called.                          *)
(* Each specification leaves the variables of the others at Idle.          *)
(***************************************************************************)
VARIABLES rootKey, primary, discharges, request, outcome, pc,
          tokenL, tokenR, verdicts,
          original, origin, wire, decoded,
          input, ctx, evaluation

tokenVars == <<rootKey, primary, discharges, request, outcome, pc>>
pairVars == <<tokenL, tokenR, verdicts>>
codecVars == <<original, origin, wire, decoded>>
predicateVars == <<input, ctx, evaluation>>
vars == <<tokenVars, pairVars, codecVars, predicateVars>>

Idle == <<>>
TokenIdle ==
    /\ rootKey = Idle /\ primary = Idle /\ discharges = Idle
    /\ request = Idle /\ outcome = Idle /\ pc = Idle
PairIdle == tokenL = Idle /\ tokenR = Idle /\ verdicts = Idle
CodecIdle == original = Idle /\ origin = Idle /\ wire = Idle /\ decoded = Idle
PredicateIdle == input = Idle /\ ctx = Idle /\ evaluation = Idle

Init ==
    /\ rootKey = IssuerKey
    /\ \E identifier \in Identifiers, location \in TokenLocations :
            primary = new(rootKey, identifier, location)
    /\ discharges = <<>>
    /\ request = <<>>
    /\ outcome = None
    /\ pc = "build"
    /\ PairIdle /\ CodecIdle /\ PredicateIdle

AddFirstPartyCaveat ==
    /\ pc \in {"build", "prepared"}
    /\ caveat_count(primary) < MaxCaveats
    /\ \E predicate \in Predicates :
            primary' = add_first_party_caveat(primary, predicate)
    /\ UNCHANGED <<rootKey, discharges, request, outcome, pc>>
    /\ UNCHANGED <<pairVars, codecVars, predicateVars>>

AddThirdPartyCaveat ==
    /\ pc \in {"build", "prepared"}
    /\ caveat_count(primary) < MaxCaveats
    /\ \E tp \in ThirdParties :
            primary' = add_third_party_caveat(primary, tp[1], tp[2], ThirdPartyLocation)
    /\ UNCHANGED <<rootKey, discharges, request, outcome, pc>>
    /\ UNCHANGED <<pairVars, codecVars, predicateVars>>

CreateDischarge ==
    /\ pc = "build"
    /\ Len(discharges) < MaxDischarges
    /\ \E vk \in VerificationKeys, caveat_id \in CaveatIds :
            discharges' = Append(discharges,
                                 create_discharge(vk, caveat_id, Some(ThirdPartyLocation)))
    /\ UNCHANGED <<rootKey, primary, request, outcome, pc>>
    /\ UNCHANGED <<pairVars, codecVars, predicateVars>>

DischargeAddFirstPartyCaveat ==
    /\ pc = "build"
    /\ \E i \in 1..Len(discharges), predicate \in Predicates :
            /\ caveat_count(discharges[i]) < MaxDischargeCaveats
            /\ discharges' = [discharges EXCEPT
                                ![i] = add_first_party_caveat(discharges[i], predicate)]
    /\ UNCHANGED <<rootKey, primary, request, outcome, pc>>
    /\ UNCHANGED <<pairVars, codecVars, predicateVars>>

PrepareForRequest ==
    /\ pc = "build"
    /\ request' = prepare_for_request(primary, discharges)
    /\ pc' = "prepared"
    /\ UNCHANGED <<rootKey, primary, discharges, outcome>>
    /\ UNCHANGED <<pairVars, codecVars, predicateVars>>

\* The discharge lists a caller may hand to verify: none, the unbound
\* discharges, or the bound ones of the prepared request.
Presentable ==
    {<<>>, discharges} \cup (IF pc = "prepared" THEN {Tail(request)} ELSE {})

Call(token, root_key, verifier, ds) ==
    LET r == verify(token, root_key, verifier, ds)
    IN  [token |-> token, root_key |-> root_key, verifier |-> verifier,
         discharges |-> ds, result |-> r.result, calls |-> r.calls]

Verify ==
    /\ pc \in {"build", "prepared"}
    /\ \E root_key \in RootKeys, verifier \in Verifiers, ds \in Presentable :
            outcome' = Some(Call(primary, root_key, verifier, ds))
    /\ pc' = "verified"
    /\ UNCHANGED <<rootKey, primary, discharges, request>>
    /\ UNCHANGED <<pairVars, codecVars, predicateVars>>

\* verify on a copy of the primary with one bit of its signature flipped:
\* the lowest bit of the first byte or the highest bit of the last byte.
VerifyTampered ==
    /\ pc \in {"build", "prepared"}
    /\ \E verifier \in Verifiers, ds \in Presentable,
          flip \in {<<1, 0>>, <<Len(primary.signature), 7>>} :
            outcome' = Some(Call([primary EXCEPT !.signature =
                                     flip_bit(primary.signature, flip[1], flip[2])],
                                 rootKey, verifier, ds))
    /\ pc' = "verified"
    /\ UNCHANGED <<rootKey, primary, discharges, request>>
    /\ UNCHANGED <<pairVars, codecVars, predicateVars>>

Next ==
    \/ AddFirstPartyCaveat
    \/ AddThirdPartyCaveat
    \/ CreateDischarge
    \/ DischargeAddFirstPartyCaveat
    \/ PrepareForRequest
    \/ Verify
    \/ VerifyTampered

Spec == Init /\ [][Next]_vars

(***************************************************************************)
(* Two tokens minted under the same key with the same identifier and       *)
(* attenuated independently of each other, then verified by one call each  *)
(* with the same arguments.                                                *)
(***************************************************************************)
MaxPairCaveats == 2

\* "T", "U"
PairLocations == {<<84>>, <<85>>}
\* The third-party caveat ("A", "v") of the pair.
PairThirdParty == << <<65>>, <<118>> >>
PairVerifiers == {AcceptAllVerifier, RejectAllVerifier, ContextVerifier(<<97>> :> <<49>>)}

PairInit ==
    /\ \E identifier \in Identifiers, l \in TokenLocations, r \in TokenLocations :
            /\ tokenL = new(IssuerKey, identifier, l)
            /\ tokenR = new(IssuerKey, identifier, r)
    /\ verdicts = None
    /\ TokenIdle /\ CodecIdle /\ PredicateIdle

PairAddFirstPartyCaveat ==
    /\ verdicts = None
    /\ \E predicate \in Predicates :
          \/ /\ caveat_count(tokenL) < MaxPairCaveats
             /\ tokenL' = add_first_party_caveat(tokenL, predicate)
             /\ tokenR' = tokenR
          \/ /\ caveat_count(tokenR) < MaxPairCaveats
             /\ tokenR' = add_first_party_caveat(tokenR, predicate)
             /\ tokenL' = tokenL
    /\ UNCHANGED <<verdicts, tokenVars, codecVars, predicateVars>>

PairAddThirdPartyCaveat ==
    /\ verdicts = None
    /\ \E location \in PairLocations :
          \/ /\ caveat_count(tokenL) < MaxPairCaveats
             /\ tokenL' = add_third_party_caveat(tokenL, PairThirdParty[1],
                                                 PairThirdParty[2], location)
             /\ tokenR' = tokenR
          \/ /\ caveat_count(tokenR) < MaxPairCaveats
             /\ tokenR' = add_third_party_caveat(tokenR, PairThirdParty[1],
                                                 PairThirdParty[2], location)
             /\ tokenL' = tokenL
    /\ UNCHANGED <<verdicts, tokenVars, codecVars, predicateVars>>

\* An assignment to the public field `location` of one caveat of tokenR.
PairSetCaveatLocation ==
    /\ verdicts = None
    /\ \E i \in 1..Len(tokenR.caveats),
          location \in {None} \cup {Some(l) : l \in PairLocations} :
            /\ tokenR.caveats[i].location # location
            /\ tokenR' = [tokenR EXCEPT !.caveats[i].location = location]
    /\ UNCHANGED <<tokenL, verdicts, tokenVars, codecVars, predicateVars>>

\* The discharge lists handed to both calls: none, or the discharge of the
\* third party bound to tokenL.
PairDischarges ==
    {<<>>,
     <<bind_discharge(tokenL, create_discharge(PairThirdParty[2], PairThirdParty[1],
                                               Some(<<84>>)))>>}

PairVerify ==
    /\ verdicts = None
    /\ \E root_key \in RootKeys, verifier \in PairVerifiers, ds \in PairDischarges :
            verdicts' = Some([root_key |-> root_key, verifier |-> verifier,
                              discharges |-> ds,
                              resultL |-> verify(tokenL, root_key, verifier, ds).result,
                              resultR |-> verify(tokenR, root_key, verifier, ds).result])
    /\ UNCHANGED <<tokenL, tokenR, tokenVars, codecVars, predicateVars>>

PairNext ==
    \/ PairAddFirstPartyCaveat
    \/ PairAddThirdPartyCaveat
    \/ PairSetCaveatLocation
    \/ PairVerify

PairSpec == PairInit /\ [][PairNext]_vars

(***************************************************************************)
(* A token is built, encoded with one of the four codecs and decoded with  *)
(* the matching decoder.                                                   *)
(***************************************************************************)
MaxCodecCaveats == 2

\* None, Some("L"), Some("L\"")
CodecLocations == {None, Some(<<76>>), Some(<<76, 34>>)}
Codecs == {"json", "msgpack", "base64", "hex"}

CodecInit ==
    /\ \E identifier \in Identifiers, location \in CodecLocations :
            original = new(IssuerKey, identifier, location)
    /\ origin = "api"
    /\ wire = None
    /\ decoded = None
    /\ TokenIdle /\ PairIdle /\ PredicateIdle

CodecAddFirstPartyCaveat ==
    /\ wire = None
    /\ origin # "bound"
    /\ caveat_count(original) < MaxCodecCaveats
    /\ \E predicate \in Predicates :
            original' = add_first_party_caveat(original, predicate)
    /\ UNCHANGED <<origin, wire, decoded, tokenVars, pairVars, predicateVars>>

CodecAddThirdPartyCaveat ==
    /\ wire = None
    /\ origin # "bound"
    /\ caveat_count(original) < MaxCodecCaveats
    /\ original' = add_third_party_caveat(original, PairThirdParty[1], PairThirdParty[2],
                                          ThirdPartyLocation)
    /\ UNCHANGED <<origin, wire, decoded, tokenVars, pairVars, predicateVars>>

\* An assignment to the public fields `verification_key_id` and `location`
\* of one caveat of the token.
CodecSetCaveatFields ==
    /\ wire = None
    /\ origin # "bound"
    /\ \E i \in 1..Len(original.caveats),
          verification_key_id \in {None, Some(PairThirdParty[2])},
          location \in {None, Some(ThirdPartyLocation)} :
            /\ <<original.caveats[i].verification_key_id, original.caveats[i].location>>
                  # <<verification_key_id, location>>
            /\ original' = [original EXCEPT
                              !.caveats[i].verification_key_id = verification_key_id,
                              !.caveats[i].location = location]
    /\ origin' = "fields"
    /\ UNCHANGED <<wire, decoded, tokenVars, pairVars, predicateVars>>

\* The token is a discharge, bound to a primary minted under the issuer's key.
CodecBindDischarge ==
    /\ wire = None
    /\ origin = "api"
    /\ \E identifier \in Identifiers :
            original' = bind_discharge(new(IssuerKey, identifier, None), original)
    /\ origin' = "bound"
    /\ UNCHANGED <<wire, decoded, tokenVars, pairVars, predicateVars>>

Encode ==
    /\ wire = None
    /\ \E codec \in Codecs :
            wire' = Some([codec |-> codec,
                          data |-> CASE codec = "json" -> to_json(original)
                                     [] codec = "msgpack" -> to_msgpack(original)
                                     [] codec = "base64" -> to_base64(original)
                                     [] codec = "hex" -> to_hex(original)])
    /\ UNCHANGED <<original, origin, decoded, tokenVars, pairVars, predicateVars>>

Decode ==
    /\ wire # None
    /\ decoded = None
    /\ decoded' = Some(CASE wire[1].codec = "json" -> from_json(wire[1].data)
                         [] wire[1].codec = "msgpack" -> from_msgpack(wire[1].data)
                         [] wire[1].codec = "base64" -> from_base64(wire[1].data)
                         [] wire[1].codec = "hex" -> from_hex(wire[1].data))
    /\ UNCHANGED <<original, origin, wire, tokenVars, pairVars, predicateVars>>

CodecNext ==
    \/ CodecAddFirstPartyCaveat
    \/ CodecAddThirdPartyCaveat
    \/ CodecSetCaveatFields
    \/ CodecBindDischarge
    \/ Encode
    \/ Decode

CodecSpec == CodecInit /\ [][CodecNext]_vars

(***************************************************************************)
(* A caveat text is parsed, the predicate is evaluated against a context,  *)
(* and a ContextVerifier holding that context verifies the text.           *)
(***************************************************************************)
MaxTextLen == 5

\* 'a', ' ', '=', '<', '>', '!'
TextAlphabet == {97, 32, 61, 60, 62, 33}
\* "x <= 5", "= value", "key =", "count < 100", "count < a", "count = 050",
\* and "a=" followed by the byte 0xff, which is not UTF-8
TestTexts == {<<120, 32, 60, 61, 32, 53>>,
              <<61, 32, 118, 97, 108, 117, 101>>,
              <<107, 101, 121, 32, 61>>,
              <<99, 111, 117, 110, 116, 32, 60, 32, 49, 48, 48>>,
              <<99, 111, 117, 110, 116, 32, 60, 32, 97>>,
              <<99, 111, 117, 110, 116, 32, 61, 32, 48, 53, 48>>,
              <<97, 61, 255>>}
Texts == UNION {[1..n -> TextAlphabet] : n \in 0..MaxTextLen} \cup TestTexts

\* HashMap::new(), {"a": "a"}, {"aa": "a"}, {"count": "50"}, {"count": "150"}
Contexts == {<<>>, <<97>> :> <<97>>, <<97, 97>> :> <<97>>,
             <<99, 111, 117, 110, 116>> :> <<53, 48>>,
             <<99, 111, 117, 110, 116>> :> <<49, 53, 48>>}

PredicateInit ==
    /\ input \in Texts
    /\ ctx \in Contexts
    /\ evaluation = [parsed |-> None, holds |-> None, verdict |-> None]
    /\ TokenIdle /\ PairIdle /\ CodecIdle

\* The argument of Predicate::parse is a &str: the input is UTF-8.
Parse ==
    /\ is_utf8(input)
    /\ evaluation.parsed = None
    /\ evaluation' = [evaluation EXCEPT !.parsed = Some(Predicate_parse(input))]
    /\ UNCHANGED <<input, ctx, tokenVars, pairVars, codecVars>>

Evaluate ==
    /\ evaluation.parsed # None
    /\ is_ok(evaluation.parsed[1].result)
    /\ evaluation.holds = None
    /\ evaluation' = [evaluation EXCEPT
                        !.holds = Some(Predicate_evaluate(evaluation.parsed[1].predicate, ctx))]
    /\ UNCHANGED <<input, ctx, tokenVars, pairVars, codecVars>>

VerifyCaveat ==
    /\ evaluation.verdict = None
    /\ evaluation' = [evaluation EXCEPT
                        !.verdict = Some(verify_caveat(ContextVerifier(ctx), input))]
    /\ UNCHANGED <<input, ctx, tokenVars, pairVars, codecVars>>

PredicateNext ==
    \/ Parse
    \/ Evaluate
    \/ VerifyCaveat

PredicateSpec == PredicateInit /\ [][PredicateNext]_vars

(***************************************************************************)
(* A CompositeVerifier is built with new and add_verifier and then asked   *)
(* about a caveat payload.                                                 *)
(***************************************************************************)
MaxSubVerifiers == 2

\* CompositeVerifier::new(); the payload is "a=1", "zz", or "a=" followed by
\* the byte 0xff.
CompositeInit ==
    /\ input \in Predicates \cup {<<97, 61, 255>>}
    /\ ctx = Idle
    /\ evaluation = [composite |-> CompositeVerifier(<<>>), verdict |-> None]
    /\ TokenIdle /\ PairIdle /\ CodecIdle

CompositeAddVerifier ==
    /\ evaluation.verdict = None
    /\ Len(evaluation.composite.verifiers) < MaxSubVerifiers
    /\ \E verifier \in Verifiers \cup {CompositeVerifier(<<>>)} :
            evaluation' = [evaluation EXCEPT
                !.composite = CompositeVerifier(Append(@.verifiers, verifier))]
    /\ UNCHANGED <<input, ctx, tokenVars, pairVars, codecVars>>

CompositeVerifyCaveat ==
    /\ evaluation.verdict = None
    /\ evaluation' = [evaluation EXCEPT
                        !.verdict = Some(verify_caveat(evaluation.composite, input))]
    /\ UNCHANGED <<input, ctx, tokenVars, pairVars, codecVars>>

CompositeNext ==
    \/ CompositeAddVerifier
    \/ CompositeVerifyCaveat

CompositeSpec == CompositeInit /\ [][CompositeNext]_vars

(***************************************************************************)
(* The fields of Stroopwafel and Caveat are public.  A holder attenuates   *)
(* the primary and the discharges, pushes caveats onto `caveats` directly, *)
(* prepares the request, and then appends a caveat, removes one, or        *)
(* replaces the caveat_id of a third-party caveat before the request is    *)
(* verified.  In the actions, target 0 is the primary and target k the     *)
(* k-th discharge.                                                         *)
(***************************************************************************)
MaxHolderCaveats == 2
MaxHolderDischarges == 2
MaxHolderDischargeCaveats == 1

\* Caveat { caveat_id: "A", verification_key_id: None, location: Some("T") }
KeylessCaveat ==
    [caveat_id |-> <<65>>, verification_key_id |-> None,
     location |-> Some(ThirdPartyLocation)]

HolderInit ==
    /\ rootKey = IssuerKey
    /\ primary = new(rootKey, <<105, 100>>, None)
    /\ discharges = <<>>
    /\ request = <<>>
    /\ outcome = None
    /\ pc = "build"
    /\ PairIdle /\ CodecIdle /\ PredicateIdle

\* Token `target` may take one more caveat while the tokens are built.
HolderRoom(target) ==
    /\ pc = "build"
    /\ IF target = 0 THEN caveat_count(primary) < MaxHolderCaveats
       ELSE caveat_count(discharges[target]) < MaxHolderDischargeCaveats

HolderAddFirstPartyCaveat ==
    /\ \E target \in 0..Len(discharges), predicate \in Predicates :
          /\ HolderRoom(target)
          /\ IF target = 0
             THEN /\ primary' = add_first_party_caveat(primary, predicate)
                  /\ UNCHANGED discharges
             ELSE /\ discharges' = [discharges EXCEPT
                                      ![target] = add_first_party_caveat(@, predicate)]
                  /\ UNCHANGED primary
    /\ UNCHANGED <<rootKey, request, outcome, pc>>
    /\ UNCHANGED <<pairVars, codecVars, predicateVars>>

HolderAddThirdPartyCaveat ==
    /\ \E target \in 0..Len(discharges), tp \in ThirdParties :
          /\ HolderRoom(target)
          /\ IF target = 0
             THEN /\ primary' = add_third_party_caveat(primary, tp[1], tp[2],
                                                       ThirdPartyLocation)
                  /\ UNCHANGED discharges
             ELSE /\ discharges' = [discharges EXCEPT
                                      ![target] = add_third_party_caveat(
                                                     @, tp[1], tp[2], ThirdPartyLocation)]
                  /\ UNCHANGED primary
    /\ UNCHANGED <<rootKey, request, outcome, pc>>
    /\ UNCHANGED <<pairVars, codecVars, predicateVars>>

\* token.caveats.push(caveat): the signature is left as it is.
HolderPushCaveat ==
    /\ \E target \in 0..Len(discharges) :
          /\ HolderRoom(target)
          /\ IF target = 0
             THEN /\ primary' = [primary EXCEPT !.caveats = Append(@, KeylessCaveat)]
                  /\ UNCHANGED discharges
             ELSE /\ discharges' = [discharges EXCEPT
                                      ![target].caveats = Append(@, KeylessCaveat)]
                  /\ UNCHANGED primary
    /\ UNCHANGED <<rootKey, request, outcome, pc>>
    /\ UNCHANGED <<pairVars, codecVars, predicateVars>>

HolderCreateDischarge ==
    /\ pc = "build"
    /\ Len(discharges) < MaxHolderDischarges
    /\ \E tp \in ThirdParties :
            discharges' = Append(discharges,
                                 create_discharge(tp[2], tp[1], Some(ThirdPartyLocation)))
    /\ UNCHANGED <<rootKey, primary, request, outcome, pc>>
    /\ UNCHANGED <<pairVars, codecVars, predicateVars>>

HolderPrepareForRequest ==
    /\ pc = "build"
    /\ request' = prepare_for_request(primary, discharges)
    /\ pc' = "prepared"
    /\ UNCHANGED <<rootKey, primary, discharges, outcome>>
    /\ UNCHANGED <<pairVars, codecVars, predicateVars>>

\* add_first_party_caveat or add_third_party_caveat on a token of the
\* prepared request.
HolderAppendAfterBinding ==
    /\ pc = "prepared"
    /\ \E k \in 1..Len(request) :
          \/ \E predicate \in Predicates :
                request' = [request EXCEPT ![k] = add_first_party_caveat(@, predicate)]
          \/ \E tp \in ThirdParties :
                request' = [request EXCEPT
                              ![k] = add_third_party_caveat(@, tp[1], tp[2],
                                                            ThirdPartyLocation)]
    /\ pc' = "appended"
    /\ UNCHANGED <<rootKey, primary, discharges, outcome>>
    /\ UNCHANGED <<pairVars, codecVars, predicateVars>>

\* token.caveats.remove(i - 1) on a token of the prepared request.
HolderRemoveCaveat ==
    /\ pc = "prepared"
    /\ \E k \in 1..Len(request) :
          \E i \in 1..Len(request[k].caveats) :
            request' = [request EXCEPT
                          ![k].caveats = SubSeq(@, 1, i - 1) \o SubSeq(@, i + 1, Len(@))]
    /\ pc' = "deleted"
    /\ UNCHANGED <<rootKey, primary, discharges, outcome>>
    /\ UNCHANGED <<pairVars, codecVars, predicateVars>>

\* token.caveats[i - 1].caveat_id = new_id on the prepared primary, new_id
\* being "A", "B" or "C"; a discharge minted under the caveat's key for
\* new_id is bound to the primary and put in front of the other discharges.
HolderReplaceCaveatId ==
    /\ pc = "prepared"
    /\ \E i \in 1..Len(request[1].caveats), new_id \in CaveatIds \cup {<<67>>} :
          /\ is_some(request[1].caveats[i].verification_key_id)
          /\ new_id # request[1].caveats[i].caveat_id
          /\ request' =
                <<[request[1] EXCEPT !.caveats[i].caveat_id = new_id],
                  bind_discharge(
                      [request[1] EXCEPT !.caveats[i].caveat_id = new_id],
                      create_discharge(request[1].caveats[i].verification_key_id[1],
                                       new_id, request[1].caveats[i].location))>>
                \o Tail(request)
    /\ pc' = "replaced"
    /\ UNCHANGED <<rootKey, primary, discharges, outcome>>
    /\ UNCHANGED <<pairVars, codecVars, predicateVars>>

HolderVerify ==
    /\ pc \in {"prepared", "appended", "deleted", "replaced"}
    /\ \E verifier \in PairVerifiers :
            outcome' = Some(Call(request[1], rootKey, verifier, Tail(request))
                            @@ [edit |-> pc])
    /\ pc' = "verified"
    /\ UNCHANGED <<rootKey, primary, discharges, request>>
    /\ UNCHANGED <<pairVars, codecVars, predicateVars>>

HolderNext ==
    \/ HolderAddFirstPartyCaveat
    \/ HolderAddThirdPartyCaveat
    \/ HolderPushCaveat
    \/ HolderCreateDischarge
    \/ HolderPrepareForRequest
    \/ HolderAppendAfterBinding
    \/ HolderRemoveCaveat
    \/ HolderReplaceCaveatId
    \/ HolderVerify

HolderSpec == HolderInit /\ [][HolderNext]_vars

(***************************************************************************)
(* The properties.  The chain signature is stated here as the data model   *)
(* states it: the left fold of the MAC, previous signature as key, over    *)
(* the binding inputs of the caveats.                                      *)
(***************************************************************************)
BindingInput(c) ==
    IF c.verification_key_id = None THEN c.caveat_id ELSE c.verification_key_id[1]

RECURSIVE ChainFold(_, _)
ChainFold(s, cs) ==
    IF cs = <<>> THEN s
    ELSE ChainFold(hmac_sha3(s, BindingInput(Head(cs))), Tail(cs))

ChainSignature(key, token) ==
    ChainFold(hmac_sha3(key, token.identifier), token.caveats)

OnlyFirstParty(token) ==
    \A i \in 1..Len(token.caveats) :
        /\ token.caveats[i].verification_key_id = None
        /\ token.caveats[i].location = None

Verified == pc = "verified"
Out == outcome[1]

\* C1: a token made by new and then add_first_party_caveat for each payload
\* verifies Ok under the key it was minted with, with AcceptAllVerifier and
\* no discharges.
C1_VerifyMintInverse ==
    (/\ Verified
     /\ Out.token = primary
     /\ OnlyFirstParty(primary)
     /\ Out.root_key = rootKey
     /\ Out.verifier = AcceptAllVerifier
     /\ Out.discharges = <<>>)
    => Out.result = Ok

C1_Witness ==
    /\ Verified
    /\ Out.token = primary
    /\ OnlyFirstParty(primary)
    /\ Len(primary.caveats) >= 2
    /\ Out.root_key = rootKey
    /\ Out.verifier = AcceptAllVerifier
    /\ Out.discharges = <<>>
    /\ Out.result = Ok

\* C2: a freshly minted token (the primary at the start, a discharge when
\* create_discharge returns) has no caveats and the signature
\* mac(key, identifier); after any appends the signature of the primary is the
\* fold of the MAC, previous signature as key, over the binding inputs of its
\* caveats in insertion order, from mac(root_key, identifier), and every
\* discharge satisfies the same under the verification key it was minted with.
C2_ChainInvariant ==
    /\ primary.caveats = <<>>
    /\ primary.signature = hmac_sha3(rootKey, primary.identifier)
    /\ [](/\ primary.signature = ChainSignature(rootKey, primary)
          /\ \A i \in 1..Len(discharges) :
                \E vk \in VerificationKeys :
                    discharges[i].signature = ChainSignature(vk, discharges[i]))
    /\ [][Len(discharges') = Len(discharges) + 1 =>
            LET d == discharges'[Len(discharges')]
            IN  /\ d.caveats = <<>>
                /\ \E vk \in VerificationKeys :
                      d.signature = hmac_sha3(vk, d.identifier)]_vars

C2_Witness ==
    /\ Len(primary.caveats) >= 2
    /\ \E i, j \in 1..Len(primary.caveats) :
          /\ primary.caveats[i].verification_key_id = None
          /\ primary.caveats[j].verification_key_id # None
    /\ \E i \in 1..Len(discharges) : discharges[i].caveats # <<>>
    /\ primary.signature = ChainSignature(rootKey, primary)

\* C3: when the signature of the token handed to verify differs from the
\* chain rebuilt from the supplied root key, its identifier and its caveats,
\* verify returns InvalidSignature whatever the verifier and the discharges,
\* and no caveat has been handed to the verifier.
C3_TamperedSignature ==
    (Verified /\ Out.token.signature # ChainSignature(Out.root_key, Out.token))
    => (Out.result.kind = "InvalidSignature" /\ Out.calls = <<>>)

C3_Witness ==
    /\ Verified
    /\ Out.root_key = rootKey
    /\ Out.token # primary
    /\ Out.token.signature # ChainSignature(Out.root_key, Out.token)
    /\ \E i \in 1..Len(Out.token.caveats) :
          Out.token.caveats[i].verification_key_id = None
    /\ Out.verifier = RejectAllVerifier
    /\ Out.discharges # <<>>
    /\ Out.result.kind = "InvalidSignature"

\* C4: a token built by mint and appends under the root key k is rejected
\* with InvalidSignature by verify under any other key.
C4_WrongKey ==
    (Verified /\ Out.token = primary /\ Out.root_key # rootKey)
    => Out.result.kind = "InvalidSignature"

C4_Witness ==
    /\ Verified
    /\ Out.token = primary
    /\ Out.root_key # rootKey
    /\ primary.caveats # <<>>
    /\ Out.verifier = AcceptAllVerifier
    /\ Out.result.kind = "InvalidSignature"

(***************************************************************************)
(* Helpers of the properties about caveat verification.                    *)
(***************************************************************************)
SignatureValid == Out.token.signature = ChainSignature(Out.root_key, Out.token)

\* The position of the first discharge whose identifier is id, 0 for none.
FirstMatch(ds, id) ==
    IF \A j \in 1..Len(ds) : ds[j].identifier # id THEN 0
    ELSE CHOOSE j \in 1..Len(ds) :
            /\ ds[j].identifier = id
            /\ \A k \in 1..(j - 1) : ds[k].identifier # id

\* Caveat i of the verified token, checked on its own, passes.
CaveatPasses(i) ==
    LET c == Out.token.caveats[i]
    IN  IF is_first_party(c) THEN is_ok(verify_caveat(Out.verifier, c.caveat_id))
        ELSE is_ok(verify_third_party_caveat(Out.token, c, Out.discharges,
                                             Out.verifier, <<>>).result)

EarlierPass(i) == \A j \in 1..(i - 1) : CaveatPasses(j)

IsFirstPartyAt(i) ==
    /\ Out.token.caveats[i].verification_key_id = None
    /\ Out.token.caveats[i].location = None

IsThirdPartyAt(i) ==
    /\ Out.token.caveats[i].verification_key_id # None
    /\ Out.token.caveats[i].location # None

\* The verifier's own answer for the payload of caveat i.
Answer(i) == verify_caveat(Out.verifier, Out.token.caveats[i].caveat_id)

\* The first-party payloads of a token, in insertion order.
RECURSIVE FirstPartyPayloads(_)
FirstPartyPayloads(cs) ==
    IF cs = <<>> THEN <<>>
    ELSE (IF Head(cs).verification_key_id = None THEN <<Head(cs).caveat_id>> ELSE <<>>)
         \o FirstPartyPayloads(Tail(cs))

\* The payloads verify hands to the verifier when nothing fails: those of the
\* primary in insertion order, with the payloads of its discharge in the
\* place of each third-party caveat.
RECURSIVE VerificationOrder(_, _)
VerificationOrder(cs, ds) ==
    IF cs = <<>> THEN <<>>
    ELSE (IF Head(cs).verification_key_id = None THEN <<Head(cs).caveat_id>>
          ELSE FirstPartyPayloads(ds[FirstMatch(ds, Head(cs).caveat_id)].caveats))
         \o VerificationOrder(Tail(cs), ds)

Rejected(payload) == ~is_ok(verify_caveat(Out.verifier, payload))

\* The third-party flow: the primary, minted under rootKey, was handed to
\* prepare_for_request with the discharges and not attenuated since; its
\* third-party caveats have distinct ids; for each of them the first
\* discharge with that identifier was minted by create_discharge under the
\* caveat's verification key and given first-party caveats only; verify is
\* called with the root key and the bound discharges.
ThirdPartyFlow ==
    /\ Verified
    /\ Out.token = primary
    /\ Out.root_key = rootKey
    /\ request # <<>>
    /\ request[1] = primary
    /\ Out.discharges = Tail(request)
    /\ \A i, j \in 1..Len(primary.caveats) :
          (/\ i # j
           /\ primary.caveats[i].verification_key_id # None
           /\ primary.caveats[j].verification_key_id # None)
          => primary.caveats[i].caveat_id # primary.caveats[j].caveat_id
    /\ \A i \in 1..Len(primary.caveats) :
          LET c == primary.caveats[i]
              d == FirstMatch(discharges, c.caveat_id)
          IN  c.verification_key_id # None =>
                /\ d # 0
                /\ OnlyFirstParty(discharges[d])
                /\ discharges[d].signature =
                      ChainSignature(c.verification_key_id[1], discharges[d])

C6_BindingTiesDischarge ==
    Verified =>
        \A i \in 1..Len(Out.token.caveats) :
            LET c == Out.token.caveats[i]
                d == FirstMatch(Out.discharges, c.caveat_id)
            IN  (/\ SignatureValid
                 /\ IsThirdPartyAt(i)
                 /\ EarlierPass(i)
                 /\ d # 0
                 /\ Out.discharges[d].signature #
                       hmac_sha3(ChainSignature(c.verification_key_id[1],
                                                Out.discharges[d]),
                                 Out.token.signature))
                => Out.result.kind = "InvalidSignature"

\* An unbound discharge, minted under the right key for the caveat.
C6_Witness ==
    /\ Verified
    /\ SignatureValid
    /\ Out.token = primary
    /\ Out.discharges = discharges
    /\ \E i \in 1..Len(primary.caveats) :
          LET c == primary.caveats[i]
              d == FirstMatch(discharges, c.caveat_id)
          IN  /\ IsThirdPartyAt(i)
              /\ EarlierPass(i)
              /\ d # 0
              /\ discharges[d].signature =
                    ChainSignature(c.verification_key_id[1], discharges[d])
    /\ Out.verifier = AcceptAllVerifier
    /\ Out.result.kind = "InvalidSignature"

\* C7: when no supplied discharge has the identifier of a third-party caveat
\* (the caveats before it passing, the primary's signature valid), verify
\* returns CaveatViolation for the missing discharge.
C7_MissingDischarge ==
    Verified =>
        \A i \in 1..Len(Out.token.caveats) :
            (/\ SignatureValid
             /\ IsThirdPartyAt(i)
             /\ EarlierPass(i)
             /\ \A j \in 1..Len(Out.discharges) :
                    Out.discharges[j].identifier # Out.token.caveats[i].caveat_id)
            => Out.result = Err("CaveatViolation", "Missing discharge macaroon for caveat")

\* A bound discharge minted for another caveat id is supplied.
C7_Witness ==
    /\ Verified
    /\ SignatureValid
    /\ Out.token = primary
    /\ request # <<>>
    /\ request[1] = primary
    /\ Out.discharges = Tail(request)
    /\ Out.discharges # <<>>
    /\ \E i \in 1..Len(primary.caveats) :
          /\ IsThirdPartyAt(i)
          /\ EarlierPass(i)
          /\ \A j \in 1..Len(Out.discharges) :
                Out.discharges[j].identifier # primary.caveats[i].caveat_id
    /\ Out.verifier = AcceptAllVerifier
    /\ Out.result.kind = "CaveatViolation"

C9_BindDischarge ==
    [][(pc = "build" /\ pc' = "prepared") =>
          /\ \A i \in 1..Len(discharges) :
                LET b == request'[i + 1]
                    d == discharges[i]
                IN  /\ b.signature = hmac_sha3(d.signature, primary.signature)
                    /\ b.location = d.location
                    /\ b.identifier = d.identifier
                    /\ b.caveats = d.caveats
          /\ \A i, j \in 1..Len(discharges) :
                discharges[i].signature = discharges[j].signature
                => request'[i + 1].signature = request'[j + 1].signature
          /\ primary' = primary
          /\ discharges' = discharges]_vars

C9_Witness ==
    /\ pc = "prepared"
    /\ Len(request) >= 2
    /\ request[2].caveats # <<>>
    /\ request[2].location # None
    /\ request[2].signature = hmac_sha3(discharges[1].signature, request[1].signature)

\* C10: prepare_for_request(discharges) returns 1 + n tokens: the primary,
\* unchanged, and then bind_discharge(primary, discharges[i]) for each i in
\* the order of the discharges.
C10_PrepareForRequest ==
    [][(pc = "build" /\ pc' = "prepared") =>
          /\ Len(request') = 1 + Len(discharges)
          /\ request'[1] = primary
          /\ \A i \in 1..Len(discharges) :
                request'[i + 1] = bind_discharge(primary, discharges[i])]_vars

C10_Witness ==
    /\ pc = "prepared"
    /\ Len(request) = 3
    /\ request[1] = primary
    /\ request[2].identifier = discharges[1].identifier
    /\ request[3].identifier = discharges[2].identifier
    /\ request[2].identifier # request[3].identifier

(***************************************************************************)
(* Properties of two tokens built side by side (PairSpec).                 *)
(***************************************************************************)
Verdict == verdicts[1]

\* cs with the elements at positions i and j exchanged.
Swapped(cs, i, j) == [cs EXCEPT ![i] = cs[j], ![j] = cs[i]]

\* C11: two tokens minted with the same root key and identifier whose
\* caveats are the same first-party payloads, except that two distinct
\* payloads stand in exchanged positions (a then b against b then a), have
\* different signatures.
C11_OrderSensitivity ==
    \A i, j \in 1..Len(tokenL.caveats) :
        (/\ i < j
         /\ OnlyFirstParty(tokenL)
         /\ tokenL.caveats[i].caveat_id # tokenL.caveats[j].caveat_id
         /\ tokenR.caveats = Swapped(tokenL.caveats, i, j))
        => tokenL.signature # tokenR.signature

C11_Witness ==
    /\ Len(tokenL.caveats) = 2
    /\ OnlyFirstParty(tokenL)
    /\ tokenL.caveats[1].caveat_id # tokenL.caveats[2].caveat_id
    /\ tokenR.caveats = Swapped(tokenL.caveats, 1, 2)
    /\ tokenL.signature # tokenR.signature

\* C12: two tokens minted with the same key and identifier have the same
\* signature whatever their locations, and after the same appends they still
\* have the same signature and one verify call gives the same result for both.
C12_TokenLocationNotSigned ==
    (tokenL.caveats = tokenR.caveats)
    => /\ tokenL.signature = tokenR.signature
       /\ verdicts # None => Verdict.resultL = Verdict.resultR

C12_Witness ==
    /\ verdicts # None
    /\ tokenL.location # tokenR.location
    /\ Len(tokenL.caveats) = 2
    /\ tokenL.caveats = tokenR.caveats
    /\ \E i \in 1..2 : tokenL.caveats[i].verification_key_id # None
    /\ Verdict.resultL = Ok
    /\ Verdict.resultR = Ok

\* tokenL and tokenR differ only in the location of their caveat i.
DifferInLocationOf(i) ==
    /\ tokenL.location = tokenR.location
    /\ tokenL.identifier = tokenR.identifier
    /\ tokenL.signature = tokenR.signature
    /\ Len(tokenL.caveats) = Len(tokenR.caveats)
    /\ i \in 1..Len(tokenL.caveats)
    /\ tokenL.caveats[i].location # tokenR.caveats[i].location
    /\ tokenR.caveats = [tokenL.caveats EXCEPT ![i].location = tokenR.caveats[i].location]

\* The chain signature verify rebuilds for a token under root_key.
Rebuilt(root_key, t) == rebuild_chain(hmac_sha3(root_key, t.identifier), t.caveats, 1)

SameSignatureCheck ==
    /\ \A root_key \in RootKeys : Rebuilt(root_key, tokenL) = Rebuilt(root_key, tokenR)
    /\ verdicts # None
         => (Verdict.resultL.kind = "InvalidSignature"
             <=> Verdict.resultR.kind = "InvalidSignature")

\* C13 as stated: whenever two tokens differ only in the location of one
\* caveat (absent, or any string), verify rebuilds the same chain signature
\* for both and the signature check gives the same result.
C13_Original ==
    \A i \in 1..Len(tokenL.caveats) : DifferInLocationOf(i) => SameSignatureCheck

\* C13, amended: the same, for a caveat that holds a verification_key_id or
\* whose location is present in both tokens; for a caveat with no
\* verification_key_id whose location is absent in exactly one of the two
\* tokens the rebuilt chains differ.
C13_CaveatLocationNotSigned ==
    \A i \in 1..Len(tokenL.caveats) :
        DifferInLocationOf(i)
        => IF \/ is_some(tokenL.caveats[i].verification_key_id)
              \/ (is_some(tokenL.caveats[i].location) /\ is_some(tokenR.caveats[i].location))
           THEN SameSignatureCheck
           ELSE \A root_key \in RootKeys :
                    Rebuilt(root_key, tokenL) # Rebuilt(root_key, tokenR)

C13_Witness ==
    /\ verdicts # None
    /\ Len(tokenL.caveats) = 2
    /\ DifferInLocationOf(2)
    /\ is_some(tokenL.caveats[2].verification_key_id)
    /\ is_none(tokenR.caveats[2].location)
    /\ Verdict.resultL = Ok
    /\ Verdict.resultR = Ok

(***************************************************************************)
(* Properties of the codecs and of the caveats they carry (CodecSpec).     *)
(***************************************************************************)
DecodedOk == decoded # None /\ decoded[1].result = Ok

\* verification_key_id is present if and only if location is present.
KeyIffLocation(c) == (c.verification_key_id # None) <=> (c.location # None)

CaveatsOf(t) == {t.caveats[i] : i \in 1..Len(t.caveats)}

\* C14 as stated: every caveat of a token made by new, the appends and
\* bind_discharge, and every caveat of a token a decoder returned, has a
\* verification_key_id if and only if it has a location.
C14_Original ==
    /\ origin \in {"api", "bound"} => \A c \in CaveatsOf(original) : KeyIffLocation(c)
    /\ DecodedOk => \A c \in CaveatsOf(decoded[1].value) : KeyIffLocation(c)

\* C14, amended: every caveat of a token made by new, the appends and
\* bind_discharge, and every caveat of the token a decoder returns for the
\* encoding of such a token, has a verification_key_id if and only if it has
\* a location; the decoders themselves do not check it.
C14_KeyIffLocation ==
    origin \in {"api", "bound"}
    => /\ \A c \in CaveatsOf(original) : KeyIffLocation(c)
       /\ DecodedOk => \A c \in CaveatsOf(decoded[1].value) : KeyIffLocation(c)

C14_Witness ==
    /\ origin = "bound"
    /\ DecodedOk
    /\ wire[1].codec = "msgpack"
    /\ Len(decoded[1].value.caveats) = 2
    /\ \E c \in CaveatsOf(decoded[1].value) : c.verification_key_id # None
    /\ \E c \in CaveatsOf(decoded[1].value) : c.location = None

\* The caveats in sight: those of the token and of the decoded token.
CaveatsInSight ==
    CaveatsOf(original) \cup (IF DecodedOk THEN CaveatsOf(decoded[1].value) ELSE {})

\* C15 as stated: is_first_party is true exactly when verification_key_id
\* is absent, and is_third_party is its negation.
C15_Original ==
    \A c \in CaveatsInSight :
        /\ is_first_party(c) <=> c.verification_key_id = None
        /\ is_third_party(c) <=> c.verification_key_id # None

\* C15, amended: is_first_party is true exactly when verification_key_id and
\* location are both absent, and is_third_party is true exactly when at least
\* one of them is present.
C15_FirstPartyIffBothAbsent ==
    \A c \in CaveatsInSight :
        /\ is_first_party(c) <=> (c.verification_key_id = None /\ c.location = None)
        /\ is_third_party(c) <=> (c.verification_key_id # None \/ c.location # None)

C15_Witness ==
    /\ DecodedOk
    /\ \E c \in CaveatsOf(decoded[1].value) :
          c.verification_key_id = None /\ c.location # None /\ is_third_party(c)
    /\ \E c \in CaveatsOf(decoded[1].value) :
          c.verification_key_id # None /\ c.location = None /\ is_third_party(c)

\* C16: for a token built by new and any first-party and third-party
\* appends, with or without a location, the decoder that matches the codec
\* returns Ok with a token equal to the original in location, identifier,
\* caveats and signature, for each of json, msgpack, base64 and hex.
C16_RoundTrip ==
    (origin = "api" /\ decoded # None)
    => /\ decoded[1].result = Ok
       /\ decoded[1].value.location = original.location
       /\ decoded[1].value.identifier = original.identifier
       /\ decoded[1].value.caveats = original.caveats
       /\ decoded[1].value.signature = original.signature

C16_Witness ==
    /\ origin = "api"
    /\ DecodedOk
    /\ wire[1].codec = "base64"
    /\ wire[1].data # to_msgpack(original)
    /\ original.location = Some(<<76, 34>>)
    /\ \E c \in CaveatsOf(original) : c.verification_key_id # None
    /\ \E c \in CaveatsOf(original) : c.verification_key_id = None
    /\ decoded[1].value = original

(***************************************************************************)
(* Properties of the predicate language (PredicateSpec).  The operator     *)
(* table and the trimming are restated here, apart from the definitions    *)
(* that model the parser.                                                  *)
(***************************************************************************)
ParseResult == evaluation.parsed[1]

\* The six operators, in the order of the parser's table.
OperatorTable ==
    << [text |-> <<60, 61>>, name |-> "LessThanOrEqual"],
       [text |-> <<62, 61>>, name |-> "GreaterThanOrEqual"],
       [text |-> <<33, 61>>, name |-> "NotEqual"],
       [text |-> <<61>>, name |-> "Equal"],
       [text |-> <<60>>, name |-> "LessThan"],
       [text |-> <<62>>, name |-> "GreaterThan"] >>

\* The operator text `op` stands at position i of s.
OccursAt(op, s, i) ==
    /\ i + Len(op) - 1 <= Len(s)
    /\ SubSeq(s, i, i + Len(op) - 1) = op

Occurs(op, s) == \E i \in 1..Len(s) : OccursAt(op, s, i)

FirstOccurrence(op, s) ==
    CHOOSE i \in 1..Len(s) : OccursAt(op, s, i) /\ \A j \in 1..(i - 1) : ~OccursAt(op, s, j)

Blank(s) == \A i \in 1..Len(s) : s[i] \in {9, 10, 11, 12, 13, 32}

\* s without its leading and trailing whitespace.
Trimmed(s) ==
    IF Blank(s) THEN <<>>
    ELSE LET first == CHOOSE i \in 1..Len(s) : ~Blank(<<s[i]>>) /\ Blank(SubSeq(s, 1, i - 1))
             last == CHOOSE i \in 1..Len(s) : ~Blank(<<s[i]>>) /\ Blank(SubSeq(s, i + 1, Len(s)))
         IN  SubSeq(s, first, last)

\* No '=', '<', '>' or '!'.
OperatorFree(s) == \A i \in 1..Len(s) : s[i] \notin {61, 60, 62, 33}

Before(s, i) == SubSeq(s, 1, i - 1)
After(s, i, op) == SubSeq(s, i + Len(op), Len(s))

\* What a parser that splits s at position i, at operator n of the table,
\* returns.
SplitAt(s, i, n, result) ==
    IF Blank(Before(s, i)) \/ Blank(After(s, i, OperatorTable[n].text))
    THEN result.result # Ok /\ result.result.kind = "InvalidFormat"
    ELSE result = [result |-> Ok,
                   predicate |-> [key |-> Trimmed(Before(s, i)),
                                  operator |-> OperatorTable[n].name,
                                  value |-> Trimmed(After(s, i, OperatorTable[n].text))]]

\* The leftmost position of s at which an operator stands, and the operator
\* standing there (the two-character one where both stand there).
LeftmostPosition(s) ==
    CHOOSE i \in 1..Len(s) :
        /\ \E n \in 1..Len(OperatorTable) : OccursAt(OperatorTable[n].text, s, i)
        /\ \A j \in 1..(i - 1), n \in 1..Len(OperatorTable) :
                ~OccursAt(OperatorTable[n].text, s, j)

OperatorAt(s, i) ==
    CHOOSE n \in 1..Len(OperatorTable) :
        /\ OccursAt(OperatorTable[n].text, s, i)
        /\ \A m \in 1..(n - 1) : ~OccursAt(OperatorTable[m].text, s, i)

AnyOperator(s) == \E n \in 1..Len(OperatorTable) : Occurs(OperatorTable[n].text, s)

\* The operator the parser chooses: the first of the table that occurs in s.
ChosenOperator(s) ==
    CHOOSE n \in 1..Len(OperatorTable) :
        /\ Occurs(OperatorTable[n].text, s)
        /\ \A m \in 1..(n - 1) : ~Occurs(OperatorTable[m].text, s)

\* C17 as stated: Predicate::parse splits the input at the leftmost
\* occurrence of any operator in the input, not at the first operator of the
\* table that occurs somewhere in it.
C17_SplitsAtLeftmostOperator ==
    (evaluation.parsed # None /\ AnyOperator(input))
    => SplitAt(input, LeftmostPosition(input),
               OperatorAt(input, LeftmostPosition(input)), ParseResult)

\* C18: for each of the six operators OP and every key and value that are
\* non-empty after trimming and hold none of '=', '<', '>', '!', the parse of
\* key OP value is the predicate (trim(key), OP, trim(value)).
C18_ParsesKeyOperatorValue ==
    evaluation.parsed # None
    => \A n \in 1..Len(OperatorTable), i \in 1..Len(input) :
          LET op == OperatorTable[n].text
          IN  ( /\ OccursAt(op, input, i)
                /\ OperatorFree(Before(input, i)) /\ ~Blank(Before(input, i))
                /\ OperatorFree(After(input, i, op)) /\ ~Blank(After(input, i, op)) )
              => ParseResult = [result |-> Ok,
                                predicate |-> [key |-> Trimmed(Before(input, i)),
                                               operator |-> OperatorTable[n].name,
                                               value |-> Trimmed(After(input, i, op))]]

\* "x <= 5" has been parsed: LessThanOrEqual, key "x", value "5".
C18_Witness ==
    /\ input = <<120, 32, 60, 61, 32, 53>>
    /\ evaluation.parsed # None
    /\ ParseResult.result = Ok
    /\ ParseResult.predicate = [key |-> <<120>>, operator |-> "LessThanOrEqual",
                                value |-> <<53>>]

\* C19: Predicate::parse returns InvalidFormat, and no predicate, when the
\* input holds no operator, or when the text before the chosen operator or
\* the text after it is empty after trimming.
C19_InvalidFormat ==
    evaluation.parsed # None
    => ( ( \/ ~AnyOperator(input)
           \/ LET n == ChosenOperator(input)
                  i == FirstOccurrence(OperatorTable[n].text, input)
              IN  \/ Blank(Before(input, i))
                  \/ Blank(After(input, i, OperatorTable[n].text)) )
         => /\ ParseResult.result # Ok
            /\ ParseResult.result.kind = "InvalidFormat"
            /\ ParseResult.predicate = NoPredicate )

\* " !=a" has been parsed: the key is empty after trimming.
C19_Witness ==
    /\ input = <<32, 33, 61, 97>>
    /\ evaluation.parsed # None
    /\ ParseResult.result # Ok
    /\ ParseResult.result.kind = "InvalidFormat"

\* C20: Predicate::evaluate is false whenever the predicate's key is absent
\* from the context, for each of the six operators, and a ContextVerifier
\* with that context rejects the caveat with CaveatViolation.
C20_AbsentKeyIsFalse ==
    ( /\ evaluation.parsed # None
      /\ ParseResult.result = Ok
      /\ ParseResult.predicate.key \notin DOMAIN ctx )
    => /\ evaluation.holds # None => evaluation.holds[1] = FALSE
       /\ evaluation.verdict # None
          => /\ evaluation.verdict[1] # Ok
             /\ evaluation.verdict[1].kind = "CaveatViolation"

\* "a!=a" against {"aa": "a"}: NotEqual, the key "a" is absent.
C20_Witness ==
    /\ input = <<97, 33, 61, 97>>
    /\ ctx = <<97, 97>> :> <<97>>
    /\ evaluation.parsed # None
    /\ ParseResult.predicate.operator = "NotEqual"
    /\ evaluation.holds = Some(FALSE)
    /\ evaluation.verdict # None
    /\ evaluation.verdict[1] # Ok

\* A decimal integer literal with an optional sign, and its value.
IsDecimal(s) ==
    LET digits == IF s # <<>> /\ s[1] \in {43, 45} THEN Tail(s) ELSE s
    IN  digits # <<>> /\ \A i \in 1..Len(digits) : digits[i] \in 48..57

RECURSIVE Magnitude(_)
Magnitude(s) ==
    IF s = <<>> THEN 0 ELSE 10 * Magnitude(SubSeq(s, 1, Len(s) - 1)) + (s[Len(s)] - 48)

DecimalValue(s) ==
    IF s[1] = 45 THEN 0 - Magnitude(Tail(s))
    ELSE IF s[1] = 43 THEN Magnitude(Tail(s))
    ELSE Magnitude(s)

\* a is before b in the byte-lexicographic order.
StringBefore(a, b) ==
    \E k \in 1..Len(b) :
        /\ k <= Len(a) + 1
        /\ \A j \in 1..(k - 1) : a[j] = b[j]
        /\ (k = Len(a) + 1 \/ a[k] < b[k])

\* What operator `op` gives for two values with `same` and `before` as their
\* equality and strict order.
Compared(op, same, before) ==
    CASE op = "Equal" -> same
      [] op = "NotEqual" -> ~same
      [] op = "LessThan" -> before
      [] op = "GreaterThan" -> ~before /\ ~same
      [] op = "LessThanOrEqual" -> before \/ same
      [] op = "GreaterThanOrEqual" -> ~before

\* C21: with the key in the context, Predicate::evaluate applies the
\* operator to the integer values when the context value and the predicate
\* value are both decimal integers, and to the strings in byte-lexicographic
\* order otherwise.
C21_NumericThenString ==
    (evaluation.holds # None /\ ParseResult.predicate.key \in DOMAIN ctx)
    => LET op == ParseResult.predicate.operator
           actual == ctx[ParseResult.predicate.key]
           expected == ParseResult.predicate.value
       IN  IF IsDecimal(actual) /\ IsDecimal(expected)
           THEN evaluation.holds[1] =
                    Compared(op, DecimalValue(actual) = DecimalValue(expected),
                             DecimalValue(actual) < DecimalValue(expected))
           ELSE evaluation.holds[1] =
                    Compared(op, actual = expected, StringBefore(actual, expected))

\* "count < 100" holds for {"count": "50"}, although "100" is before "50" as
\* a string.
C21_Witness ==
    /\ input = <<99, 111, 117, 110, 116, 32, 60, 32, 49, 48, 48>>
    /\ ctx = <<99, 111, 117, 110, 116>> :> <<53, 48>>
    /\ evaluation.holds = Some(TRUE)
    /\ StringBefore(ParseResult.predicate.value, ctx[ParseResult.predicate.key])

SubVerifierAccepts(i) ==
    is_ok(verify_caveat(evaluation.composite.verifiers[i], input))

CheckedAlone(i) ==
    LET c == Out.token.caveats[i]
    IN  IF c.verification_key_id = None /\ c.location = None
        THEN [result |-> verify_caveat(Out.verifier, c.caveat_id),
              calls |-> <<c.caveat_id>>]
        ELSE verify_third_party_caveat(Out.token, c, Out.discharges, Out.verifier, <<>>)

\* The payloads handed to the verifier for caveats 1..i, in that order.
RECURSIVE CallsUpTo(_)
CallsUpTo(i) == IF i = 0 THEN <<>> ELSE CallsUpTo(i - 1) \o CheckedAlone(i).calls

\* C24: once the signature check has passed, the caveats are examined one
\* at a time in insertion order and verify returns the error of the
\* earliest failing caveat without examining any later caveat: the verifier
\* has seen the payloads of the caveats up to the failing one and no other.
C24_EarliestFailure ==
    (Verified /\ SignatureValid)
    => \A i \in 1..Len(Out.token.caveats) :
          (/\ \A j \in 1..(i - 1) : is_ok(CheckedAlone(j).result)
           /\ ~is_ok(CheckedAlone(i).result))
          => /\ Out.result = CheckedAlone(i).result
             /\ Out.calls = CallsUpTo(i)

\* A third-party caveat with no discharge, then a first-party caveat the
\* verifier rejects: the missing discharge is reported and the verifier was
\* never called.
C24_Witness ==
    /\ Verified /\ SignatureValid
    /\ Len(Out.token.caveats) = 2
    /\ IsThirdPartyAt(1)
    /\ \A j \in 1..Len(Out.discharges) :
            Out.discharges[j].identifier # Out.token.caveats[1].caveat_id
    /\ IsFirstPartyAt(2)
    /\ ~is_ok(Answer(2))
    /\ Out.result = Err("CaveatViolation", "Missing discharge macaroon for caveat")
    /\ Out.calls = <<>>

(***************************************************************************)
(* C25                                                                     *)
(***************************************************************************)
\* The positions of the supplied discharges whose identifier is id.
Matches(id) == {j \in 1..Len(Out.discharges) : Out.discharges[j].identifier = id}

\* Discharge j is bound to the verified token and chained under the
\* verification key of caveat i.
CorrectlyBound(i, j) ==
    Out.discharges[j].signature =
        hmac_sha3(ChainSignature(Out.token.caveats[i].verification_key_id[1],
                                 Out.discharges[j]),
                  Out.token.signature)

\* The verifier accepts every first-party payload of discharge j.
DischargeAccepted(j) ==
    \A n \in 1..Len(Out.discharges[j].caveats) :
        LET c == Out.discharges[j].caveats[n]
        IN  (c.verification_key_id = None /\ c.location = None)
            => is_ok(verify_caveat(Out.verifier, c.caveat_id))

\* C25: when several supplied discharges share the identifier of a
\* third-party caveat, only the first of them in the list is consulted:
\* verify returns InvalidSignature when the first match is not correctly
\* bound, even if a later one is, and the caveat passes when the first match
\* is valid, whatever the later ones are.
C25_FirstMatchDecides ==
    (Verified /\ SignatureValid)
    => \A i \in 1..Len(Out.token.caveats) :
          (/\ IsThirdPartyAt(i)
           /\ \A j \in 1..(i - 1) : is_ok(CheckedAlone(j).result)
           /\ Cardinality(Matches(Out.token.caveats[i].caveat_id)) >= 2)
          => LET first == CHOOSE j \in Matches(Out.token.caveats[i].caveat_id) :
                            \A k \in Matches(Out.token.caveats[i].caveat_id) : j <= k
             IN  /\ ~CorrectlyBound(i, first) => Out.result.kind = "InvalidSignature"
                 /\ (CorrectlyBound(i, first) /\ DischargeAccepted(first)
                       /\ i = Len(Out.token.caveats))
                    => Out.result = Ok

\* Two bound discharges for the same caveat id, the first minted under
\* another key and the second under the caveat's key.
C25_Witness ==
    /\ Verified /\ SignatureValid
    /\ Len(Out.discharges) = 2
    /\ \E i \in 1..Len(Out.token.caveats) :
          /\ IsThirdPartyAt(i)
          /\ \A j \in 1..(i - 1) : is_ok(CheckedAlone(j).result)
          /\ Matches(Out.token.caveats[i].caveat_id) = {1, 2}
          /\ ~CorrectlyBound(i, 1)
          /\ CorrectlyBound(i, 2)
          /\ DischargeAccepted(2)
    /\ Out.result.kind = "InvalidSignature"

(***************************************************************************)
(* C26 - C30: the holder's edits (specification HolderSpec)                *)
(***************************************************************************)
\* A caveat with a location and no verification key.
Keyless(c) == c.verification_key_id = None /\ c.location # None

\* The chain over the caveats that are first-party or hold a key.
RECURSIVE SignedFold(_, _)
SignedFold(s, cs) ==
    IF cs = <<>> THEN s
    ELSE IF Keyless(Head(cs)) THEN SignedFold(s, Tail(cs))
    ELSE SignedFold(hmac_sha3(s, BindingInput(Head(cs))), Tail(cs))

\* The signature check of the verified token passes.
SignaturePasses ==
    Out.token.signature =
        SignedFold(hmac_sha3(Out.root_key, Out.token.identifier), Out.token.caveats)

\* Supplied discharge j carries the chain under the key of caveat i, bound
\* to the signature of the verified token.
BoundTo(i, j) ==
    Out.discharges[j].signature =
        hmac_sha3(SignedFold(hmac_sha3(Out.token.caveats[i].verification_key_id[1],
                                       Out.discharges[j].identifier),
                             Out.discharges[j].caveats),
                  Out.token.signature)

\* The first supplied discharge whose identifier is id, 0 for none.
Consulted(id) ==
    IF Matches(id) = {} THEN 0
    ELSE CHOOSE j \in Matches(id) : \A k \in Matches(id) : j <= k

\* The request as prepare_for_request returned it, and the result of verify
\* on it with the verifier of the recorded call.
Bound == prepare_for_request(primary, discharges)
BeforeOk == verify(primary, rootKey, Out.verifier, Tail(Bound)).result = Ok

\* The positions in the request of the tokens the holder edited.
Edited == {k \in 1..Len(Bound) : request[k] # Bound[k]}

\* The positions in the prepared request of the discharges that verify
\* consults for the keyed caveats of the primary.
ConsultedPositions ==
    {Consulted(primary.caveats[i].caveat_id) + 1 :
        i \in {n \in 1..Len(primary.caveats) :
                 /\ primary.caveats[n].verification_key_id # None
                 /\ Matches(primary.caveats[n].caveat_id) # {}}}

\* C26: inside a discharge only first-party caveats are checked.  A
\* discharge bound to the token, whose chain under the caveat's key binds
\* the verification key of each nested third-party caveat, is accepted when
\* the verifier accepts its first-party payloads, whether or not a discharge
\* for a nested caveat is supplied; and the caveat_id of a nested third-party
\* caveat is never handed to the verifier.
C26_OnlyFirstPartyInsideDischarge ==
    Verified
    => /\ \A i \in 1..Len(Out.token.caveats) :
             (/\ SignaturePasses
              /\ Out.token.caveats[i].verification_key_id # None
              /\ \A j \in 1..Len(Out.token.caveats) :
                    j # i => is_ok(CheckedAlone(j).result)
              /\ Consulted(Out.token.caveats[i].caveat_id) # 0
              /\ BoundTo(i, Consulted(Out.token.caveats[i].caveat_id))
              /\ DischargeAccepted(Consulted(Out.token.caveats[i].caveat_id)))
             => Out.result = Ok
       /\ \A j \in 1..Len(Out.discharges) :
             \A n \in 1..Len(Out.discharges[j].caveats) :
                Out.discharges[j].caveats[n].verification_key_id # None
                => \A m \in 1..Len(Out.calls) :
                      Out.calls[m] # Out.discharges[j].caveats[n].caveat_id

\* The discharge of the primary's third-party caveat holds a third-party
\* caveat of its own, no discharge for that one is supplied, and verify
\* returned Ok.
C26_Witness ==
    /\ Verified
    /\ Out.edit = "prepared"
    /\ Out.result = Ok
    /\ \E i \in 1..Len(Out.token.caveats) :
          /\ Out.token.caveats[i].verification_key_id # None
          /\ Consulted(Out.token.caveats[i].caveat_id) # 0
          /\ \E n \in 1..Len(Out.discharges[Consulted(Out.token.caveats[i].caveat_id)].caveats) :
                LET nested == Out.discharges[Consulted(Out.token.caveats[i].caveat_id)].caveats[n]
                IN  /\ nested.verification_key_id # None
                    /\ Matches(nested.caveat_id) = {}

\* C27: a token holding a caveat with a location and no verification key
\* never verifies Ok; when the signature check passes and the caveats before
\* it pass, verify returns InvalidFormat if some supplied discharge has the
\* caveat_id as identifier and CaveatViolation if none has.
C27_KeylessNeverOk ==
    Verified
    => \A i \in 1..Len(Out.token.caveats) :
          Keyless(Out.token.caveats[i])
          => /\ Out.result # Ok
             /\ (/\ SignaturePasses
                 /\ \A j \in 1..(i - 1) : is_ok(CheckedAlone(j).result))
                => Out.result.kind =
                      IF Matches(Out.token.caveats[i].caveat_id) # {}
                      THEN "InvalidFormat" ELSE "CaveatViolation"

\* The keyless caveat "A" is reached and a discharge with identifier "A" is
\* supplied.
C27_Witness ==
    /\ Verified
    /\ SignaturePasses
    /\ \E i \in 1..Len(Out.token.caveats) :
          /\ Keyless(Out.token.caveats[i])
          /\ \A j \in 1..(i - 1) : is_ok(CheckedAlone(j).result)
          /\ Matches(Out.token.caveats[i].caveat_id) # {}
    /\ Out.result.kind = "InvalidFormat"

\* C28 as stated: after a caveat is appended to the primary or to a bound
\* discharge, verify returns InvalidSignature.
C28_Original ==
    (Verified /\ Out.edit = "appended")
    => Out.result.kind = "InvalidSignature"

\* C28, amended: when the prepared request verified Ok, appending a caveat
\* to a bound discharge that verify consults, or to the primary when verify
\* consults some discharge, makes verify return InvalidSignature.
C28_AppendAfterBinding ==
    (/\ Verified
     /\ Out.edit = "appended"
     /\ BeforeOk
     /\ IF 1 \in Edited THEN ConsultedPositions # {}
        ELSE Edited \subseteq ConsultedPositions)
    => Out.result.kind = "InvalidSignature"

\* A first-party caveat the verifier accepts was appended to the bound
\* discharge of the primary's third-party caveat.
C28_Witness ==
    /\ Verified
    /\ Out.edit = "appended"
    /\ BeforeOk
    /\ Edited # {}
    /\ 1 \notin Edited
    /\ Edited \subseteq ConsultedPositions
    /\ \A k \in Edited :
          LET cs == request[k].caveats
          IN  /\ cs[Len(cs)].verification_key_id = None
              /\ is_ok(verify_caveat(Out.verifier, cs[Len(cs)].caveat_id))
    /\ Out.result.kind = "InvalidSignature"

\* C29: every caveat of an accepted token is covered by a signature.  When
\* the prepared request verified Ok, removing one caveat from the primary
\* or from a discharge that verify consults, all signatures left as they
\* are, makes verify return InvalidSignature.
C29_EveryCaveatSigned ==
    (/\ Verified
     /\ Out.edit = "deleted"
     /\ BeforeOk
     /\ Edited \subseteq ({1} \cup ConsultedPositions))
    => Out.result.kind = "InvalidSignature"

\* The position of the caveat whose caveat_id the holder replaced.
Replaced ==
    CHOOSE i \in 1..Len(primary.caveats) : Out.token.caveats[i] # primary.caveats[i]

\* C30 as stated: after the caveat_id of a third-party caveat of a token
\* that verified Ok is replaced, the signature check passes and verify
\* returns Ok with the bound discharge minted for the new caveat_id.
C30_Original ==
    (Verified /\ Out.edit = "replaced" /\ BeforeOk)
    => /\ SignaturePasses
       /\ Out.result = Ok

\* C30, amended: the signature check passes after the replacement, the
\* discharge minted for the new caveat_id answers for the caveat, and verify
\* returns Ok when every other caveat passes: it does when the token
\* verified Ok before and no other keyed caveat has the new caveat_id.
C30_CaveatIdNotSigned ==
    (Verified /\ Out.edit = "replaced")
    => /\ SignaturePasses
       /\ Consulted(Out.token.caveats[Replaced].caveat_id) = 1
       /\ BoundTo(Replaced, 1)
       /\ (\A j \in 1..Len(Out.token.caveats) :
              j # Replaced => is_ok(CheckedAlone(j).result))
          => Out.result = Ok
       /\ (/\ BeforeOk
           /\ \A j \in 1..Len(Out.token.caveats) :
                 (j # Replaced /\ Out.token.caveats[j].verification_key_id # None)
                 => Out.token.caveats[j].caveat_id # Out.token.caveats[Replaced].caveat_id)
          => Out.result = Ok

\* The caveat_id "A" of a token that verified Ok was replaced by "C", and
\* the token verifies Ok with the discharge minted for "C".
C30_Witness ==
    /\ Verified
    /\ Out.edit = "replaced"
    /\ BeforeOk
    /\ primary.caveats[Replaced].caveat_id = <<65>>
    /\ Out.token.caveats[Replaced].caveat_id = <<67>>
    /\ Out.result = Ok

====
